---------------------------- MODULE Spec2Model ----------------------------
(***************************************************************************)
(* A model of decomp-toolkit's ELF codec and split index:                  *)
(*   src/src/obj/splits.rs   ObjSplit / ObjSplits (the split index)        *)
(*   src/src/util/elf.rs     process_elf (reader), write_elf (writer)      *)
(*                                                                         *)
(* Conventions.  Option<T> is a sequence of length 0 (None) or 1 (Some).   *)
(* Result<T> is a record [ok, val].  A Vec is a sequence.  A BTreeMap is a *)
(* function whose DOMAIN is the key set; iteration is in ascending key     *)
(* order.  An IndexMap is a sequence of [name, entries] records in         *)
(* insertion order.  Bytes are 0..255 and 32-bit words are 0..2^32-1.      *)
(***************************************************************************)
EXTENDS Integers, Sequences, FiniteSets, TLC

VARIABLES
    splits,         \* ObjSplits.splits : BTreeMap<u32, Vec<ObjSplit>>
    returned,       \* ObjSplits: the last call and the value it returned
    alignment_args, \* ObjSplit::alignment: the arguments of the last call
    elf,            \* process_elf: the input image (obj_file), as far as it was read
    boundary_state, \* process_elf: boundary_state
    section_starts, \* process_elf: section_starts : IndexMap<String, Vec<(u64, String)>>
    name_to_index,  \* process_elf: name_to_index : HashMap<String, usize>
    symbol_indexes, \* process_elf: symbol_indexes : Vec<Option<usize>>
    symbols,        \* process_elf: symbols : Vec<ObjSymbol>
    obj_name,       \* process_elf: obj_name
    read_state,     \* process_elf: "scan" (in the symbol loop), "failed" (bailed)
    obj,            \* write_elf: the object being written
    write_state,    \* write_elf: the position in the function, "done" or "failed"
    cursor,         \* write_elf: the position of the loop of the current phase
    out_symbols,    \* write_elf: out_symbols
    symbol_map,     \* write_elf: symbol_map
    num_local,      \* write_elf: num_local
    symtab_num,     \* write_elf: writer.symbol_count()
    section_symbol_offset, \* write_elf: section_symbol_offset
    comment_data,   \* write_elf: comment_data, its records
    out_data        \* write_elf: out_data, the regions emitted so far

splitVars == <<splits, returned, alignment_args>>
scanVars == <<elf, boundary_state, section_starts, name_to_index, symbol_indexes,
              symbols, obj_name, read_state>>
writeVars == <<obj, write_state, cursor, out_symbols, symbol_map, num_local, symtab_num,
               section_symbol_offset, comment_data, out_data>>
vars == <<splitVars, scanVars, writeVars>>

None == <<>>
Some(v) == <<v>>
IsSome(o) == Len(o) = 1
Unwrap(o) == o[1]

Ok(v) == [ok |-> TRUE, val |-> v]
Err == [ok |-> FALSE, val |-> None]

\* The writer variables when no write is in progress.
WriteIdle ==
    /\ obj = [kind |-> "Executable", name |-> "", sections |-> <<>>, symbols |-> <<>>,
              mw_comment |-> None, link_order |-> <<>>]
    /\ write_state = "idle"
    /\ cursor = 0
    /\ out_symbols = <<>>
    /\ symbol_map = <<>>
    /\ num_local = 0
    /\ symtab_num = 0
    /\ section_symbol_offset = 0
    /\ comment_data = None
    /\ out_data = <<>>

(***************************************************************************)
(* Bounds of the split-index model.                                        *)
(***************************************************************************)
MaxAddr == 2
MaxSplits == MaxAddr
Addrs == 0..MaxAddr
Ends == 0..(MaxAddr + 1)
Units == {"a.c", "b.c"}

\* struct ObjSplit
ObjSplit(unit, end) ==
    [unit |-> unit, end |-> end, align |-> None, common |-> FALSE,
     autogenerated |-> FALSE, skip |-> FALSE, rename |-> None]

SplitInputs == {ObjSplit(u, e) : u \in Units, e \in Ends}

(***************************************************************************)
(* Sorted key sequence of a BTreeMap and the flattened (addr, split)       *)
(* iteration flat_map over the keys, yielding (addr, split) pairs.        *)
(***************************************************************************)
MinOf(S) == CHOOSE x \in S : \A y \in S : x <= y
MaxOf(S) == CHOOSE x \in S : \A y \in S : x >= y

RECURSIVE SortedSeq(_)
SortedSeq(S) ==
    IF S = {} THEN <<>>
    ELSE LET m == MinOf(S) IN <<m>> \o SortedSeq(S \ {m})

PairsAt(m, addr) == [i \in 1..Len(m[addr]) |-> <<addr, m[addr][i]>>]

RECURSIVE FlatMapKeys(_, _)
FlatMapKeys(m, keys) ==
    IF keys = <<>> THEN <<>>
    ELSE PairsAt(m, Head(keys)) \o FlatMapKeys(m, Tail(keys))

\* ObjSplits::iter
SplitsIter(m) == FlatMapKeys(m, SortedSeq(DOMAIN m))

\* ObjSplits::for_range(..=address)
ForRangeToInclusive(m, address) ==
    FlatMapKeys(m, SortedSeq({k \in DOMAIN m : k <= address}))

\* DoubleEndedIterator::next_back on a freshly built iterator
NextBack(s) == IF s = <<>> THEN None ELSE Some(s[Len(s)])

\* ObjSplits::has_split_at
HasSplitAt(m, address) == address \in DOMAIN m

\* ObjSplits::for_address
ForAddress(m, address) ==
    LET last == NextBack(ForRangeToInclusive(m, address)) IN
    IF IsSome(last) /\ (Unwrap(last)[2].end = 0 \/ Unwrap(last)[2].end > address)
    THEN last
    ELSE None

\* ObjSplits::for_unit with `find` in place of `at_most_one` (a plausible slip)
ForUnitFirstMatch(m, unit) ==
    LET matches == SelectSeq(SplitsIter(m), LAMBDA p : p[2].unit = unit) IN
    IF matches = <<>> THEN Ok(None) ELSE Ok(Some(matches[1]))

\* ObjSplits::for_unit
ForUnit(m, unit) ==
    LET matches == SelectSeq(SplitsIter(m), LAMBDA p : p[2].unit = unit) IN
    CASE Len(matches) = 0 -> Ok(None)
      [] Len(matches) = 1 -> Ok(Some(matches[1]))
      [] OTHER -> Err

\* NestedVec::nested_push: entry(key).or_default().push(value)
NestedPush(m, key, value) ==
    IF key \in DOMAIN m
    THEN [m EXCEPT ![key] = Append(@, value)]
    ELSE [k \in DOMAIN m \cup {key} |-> IF k = key THEN <<value>> ELSE m[k]]

\* BTreeMap::remove that also drops every smaller key (a plausible slip)
MapRemoveUpTo(m, key) ==
    [map |-> [k \in {j \in DOMAIN m : j > key} |-> m[k]],
     removed |-> IF key \in DOMAIN m THEN Some(m[key]) ELSE None]

\* BTreeMap::remove that empties the Vec and leaves the key (a plausible slip:
\* mem::take on the entry)
MapRemoveLeaveKey(m, key) ==
    [map |-> [k \in DOMAIN m |-> IF k = key THEN <<>> ELSE m[k]],
     removed |-> IF key \in DOMAIN m THEN Some(m[key]) ELSE None]

\* BTreeMap::remove: the map left and the value returned
MapRemove(m, key) ==
    [map |-> [k \in DOMAIN m \ {key} |-> m[k]],
     removed |-> IF key \in DOMAIN m THEN Some(m[key]) ELSE None]

SplitCount(m) == Len(SplitsIter(m))

EmptyMap == [k \in {} |-> <<>>]

\* ObjSplits::default(), before any call
SplitsIdle ==
    /\ splits = EmptyMap
    /\ returned = [op |-> "new", val |-> None]
    /\ alignment_args = None

(***************************************************************************)
(* Strings: Len, SubSeq and \o apply to strings as to sequences.           *)
(***************************************************************************)
StartsWith(s, p) == Len(s) >= Len(p) /\ SubSeq(s, 1, Len(p)) = p
EndsWith(s, p) == Len(s) >= Len(p) /\ SubSeq(s, Len(s) - Len(p) + 1, Len(s)) = p
Contains(s, p) ==
    \E i \in 1..(Len(s) + 1) : i + Len(p) - 1 <= Len(s) /\ SubSeq(s, i, i + Len(p) - 1) = p

Digits == <<"0", "1", "2", "3", "4", "5", "6", "7", "8", "9">>

\* Display of a usize in format!("{}_{}", file_name, index)
RECURSIVE DecStr(_)
DecStr(n) == IF n < 10 THEN Digits[n + 1] ELSE DecStr(n \div 10) \o Digits[(n % 10) + 1]

(***************************************************************************)
(* The input image as the `object` crate presents it.  A section's or a    *)
(* symbol's index is its position in the table (the first is 1 here).      *)
(*   section: [name, kind, address, size, data, align, relocations]        *)
(*   symbol:  [kind, name, address, size, section, bind, vis]              *)
(*            section is [t, idx], t one of Section, Absolute, Undefined,  *)
(*            Common, None                                                 *)
(***************************************************************************)
ElfSym(kind, name, address, section, bind) ==
    [kind |-> kind, name |-> name, address |-> address, size |-> 0,
     section |-> section, bind |-> bind, vis |-> "Default"]

InSection(idx) == [t |-> "Section", idx |-> idx]
Absolute == [t |-> "Absolute", idx |-> 0]
Undefined == [t |-> "Undefined", idx |-> 0]

NullSym == ElfSym("Null", "", 0, Undefined, "Local")

\* Symbol::section_index()
SectionIndexOf(symbol) ==
    IF symbol.section.t = "Section" THEN Some(symbol.section.idx) ELSE None

\* struct ObjSection, as process_elf builds it
ObjSection(section, elf_index) ==
    [name |-> section.name,
     kind |-> CASE section.kind = "Text" -> "Code"
                [] section.kind = "Data" -> "Data"
                [] section.kind = "ReadOnlyData" -> "ReadOnlyData"
                [] section.kind = "UninitializedData" -> "Bss",
     address |-> section.address, size |-> section.size, data |-> section.data,
     align |-> section.align, elf_index |-> elf_index,
     relocations |-> EmptyMap, splits |-> EmptyMap]

\* process_elf: whether a section of the input is kept
SectionKept(section) ==
    /\ section.size # 0
    /\ section.kind \in {"Text", "Data", "ReadOnlyData", "UninitializedData"}

\* process_elf: the section loop; [sections, section_indexes]
RECURSIVE ReadSections(_, _, _)
ReadSections(in, i, acc) ==
    IF i > Len(in) THEN acc
    ELSE IF ~SectionKept(in[i])
         THEN ReadSections(in, i + 1,
                  [acc EXCEPT !.section_indexes = Append(@, None)])
         ELSE ReadSections(in, i + 1,
                  [sections |-> Append(acc.sections, ObjSection(in[i], i)),
                   section_indexes |->
                       Append(acc.section_indexes, Some(Len(acc.sections) + 1))])

SectionsOf(image) ==
    ReadSections(image.sections, 1, [sections |-> <<>>, section_indexes |-> <<>>])

(***************************************************************************)
(* enum BoundaryState                                                      *)
(***************************************************************************)
LookForFile(queue) == [tag |-> "LookForFile", queue |-> queue, file_name |-> ""]
LookForSections(file_name) ==
    [tag |-> "LookForSections", queue |-> <<>>, file_name |-> file_name]
FilesEnded == [tag |-> "FilesEnded", queue |-> <<>>, file_name |-> ""]

(***************************************************************************)
(* IndexMap<String, Vec<(u64, String)>> as a sequence of [name, entries].  *)
(***************************************************************************)
HasKey(map, name) == \E i \in 1..Len(map) : map[i].name = name
KeyIndex(map, name) == CHOOSE i \in 1..Len(map) : map[i].name = name
InsertDefault(map, name) == Append(map, [name |-> name, entries |-> <<>>])
Keys(map) == [i \in 1..Len(map) |-> map[i].name]

\* process_elf: the precompiled-header denylist, with the two exact names
\* forgotten (a plausible slip)
IsPchFileNameNoExact(file_name) ==
    \/ EndsWith(file_name, ".h")
    \/ StartsWith(file_name, "Pch.")
    \/ Contains(file_name, "precompiled_")
    \/ Contains(file_name, "Precompiled")
    \/ Contains(file_name, ".pch")
    \/ Contains(file_name, "_PCH.")

\* process_elf: the precompiled-header denylist
IsPchFileName(file_name) ==
    \/ file_name = "Precompiled.cpp"
    \/ file_name = "stdafx.cpp"
    \/ EndsWith(file_name, ".h")
    \/ StartsWith(file_name, "Pch.")
    \/ Contains(file_name, "precompiled_")
    \/ Contains(file_name, "Precompiled")
    \/ Contains(file_name, ".pch")
    \/ Contains(file_name, "_PCH.")


(***************************************************************************)
(* process_elf: one iteration of the symbol loop, on the frame             *)
(*   st = [boundary_state, section_starts, name_to_index, symbol_indexes,  *)
(*         symbols, obj_name, err]                                         *)
(* err = TRUE stands for the `?` / bail! exits (the read returns Err).     *)
(***************************************************************************)
Bail(st) == [st EXCEPT !.err = TRUE]

\* to_obj_symbol: the flag set
SymbolFlags(symbol) ==
    (IF symbol.bind # "Local" THEN {"Global"} ELSE {})
    \cup (IF symbol.bind = "Local" THEN {"Local"} ELSE {})
    \cup (IF symbol.section.t = "Common" THEN {"Common"} ELSE {})
    \cup (IF symbol.bind = "Weak" THEN {"Weak"} ELSE {})
    \cup (IF symbol.section.t # "Undefined" /\ symbol.bind # "Local"
             /\ symbol.vis = "Hidden" THEN {"Hidden"} ELSE {})

\* to_obj_symbol
ToObjSymbol(image, symbol, section_indexes, align) ==
    LET name == IF symbol.kind = "Section"
                THEN image.sections[symbol.section.idx].name
                ELSE symbol.name
    IN  IF symbol.kind = "Section" /\ symbol.section.t # "Section" THEN Err
        ELSE IF name = "" THEN Err
        ELSE IF symbol.kind \notin {"Text", "Data", "Unknown", "Label", "Section"} THEN Err
        ELSE Ok([name |-> name,
                 address |-> symbol.address,
                 section |-> IF symbol.section.t = "Section"
                             THEN section_indexes[symbol.section.idx] ELSE None,
                 size |-> symbol.size,
                 size_known |-> TRUE,
                 flags |-> SymbolFlags(symbol),
                 kind |-> CASE symbol.kind = "Text" -> "Function"
                            [] symbol.kind = "Data" -> "Object"
                            [] symbol.kind \in {"Unknown", "Label"} -> "Unknown"
                            [] symbol.kind = "Section" -> "Section",
                 align |-> align])

\* process_elf: unit registration with the Occupied arm of the second lookup
\* reusing the existing entry instead of bailing (a plausible slip)
RegisterUnitNoBail(st, file_name) ==
    IF ~HasKey(st.section_starts, file_name)
    THEN [err |-> FALSE, file_name |-> file_name,
          section_starts |-> InsertDefault(st.section_starts, file_name),
          name_to_index |-> st.name_to_index]
    ELSE LET index == (IF file_name \in DOMAIN st.name_to_index
                       THEN st.name_to_index[file_name] ELSE 0) + 1
             new_name == file_name \o "_" \o DecStr(index)
             n2i == [k \in DOMAIN st.name_to_index \cup {file_name} |->
                        IF k = file_name THEN index ELSE st.name_to_index[k]]
         IN  [err |-> FALSE, file_name |-> new_name,
              section_starts |-> IF HasKey(st.section_starts, new_name)
                                 THEN st.section_starts
                                 ELSE InsertDefault(st.section_starts, new_name),
              name_to_index |-> n2i]

\* process_elf: section_starts.entry(file_name), with the duplicate-name
\* handling; [err, file_name, section_starts, name_to_index]
RegisterUnit(st, file_name) ==
    IF ~HasKey(st.section_starts, file_name)
    THEN [err |-> FALSE, file_name |-> file_name,
          section_starts |-> InsertDefault(st.section_starts, file_name),
          name_to_index |-> st.name_to_index]
    ELSE LET index == (IF file_name \in DOMAIN st.name_to_index
                       THEN st.name_to_index[file_name] ELSE 0) + 1
             new_name == file_name \o "_" \o DecStr(index)
             n2i == [k \in DOMAIN st.name_to_index \cup {file_name} |->
                        IF k = file_name THEN index ELSE st.name_to_index[k]]
         IN  IF HasKey(st.section_starts, new_name)
             THEN [err |-> TRUE, file_name |-> new_name,
                   section_starts |-> st.section_starts, name_to_index |-> n2i]
             ELSE [err |-> FALSE, file_name |-> new_name,
                   section_starts |-> InsertDefault(st.section_starts, new_name),
                   name_to_index |-> n2i]

\* match &mut boundary_state for a FILE symbol, with the flush of a non-empty
\* queue followed by the move to LookForSections (a plausible slip)
FileTransitionToSections(bs, starts, file_name) ==
    CASE bs.tag = "LookForFile" ->
            [boundary_state |-> LookForSections(file_name),
             section_starts |->
                 [starts EXCEPT ![KeyIndex(starts, file_name)].entries = @ \o bs.queue]]
      [] bs.tag = "LookForSections" ->
            [boundary_state |-> LookForSections(file_name), section_starts |-> starts]
      [] bs.tag = "FilesEnded" ->
            [boundary_state |-> bs, section_starts |-> starts]

\* match &mut boundary_state for a FILE symbol, with a FILE symbol after the
\* files ended opening its unit (a plausible slip)
FileTransitionFromEnded(bs, starts, file_name) ==
    CASE bs.tag = "LookForFile" ->
            IF bs.queue = <<>>
            THEN [boundary_state |-> LookForSections(file_name), section_starts |-> starts]
            ELSE [boundary_state |-> LookForFile(<<>>),
                  section_starts |->
                      [starts EXCEPT ![KeyIndex(starts, file_name)].entries = @ \o bs.queue]]
      [] bs.tag \in {"LookForSections", "FilesEnded"} ->
            [boundary_state |-> LookForSections(file_name), section_starts |-> starts]

\* process_elf: match &mut boundary_state, for a FILE symbol;
\* [boundary_state, section_starts]
FileTransition(bs, starts, file_name) ==
    CASE bs.tag = "LookForFile" ->
            IF bs.queue = <<>>
            THEN [boundary_state |-> LookForSections(file_name), section_starts |-> starts]
            ELSE [boundary_state |-> LookForFile(<<>>),
                  section_starts |->
                      [starts EXCEPT ![KeyIndex(starts, file_name)].entries = @ \o bs.queue]]
      [] bs.tag = "LookForSections" ->
            [boundary_state |-> LookForSections(file_name), section_starts |-> starts]
      [] bs.tag = "FilesEnded" ->
            [boundary_state |-> bs, section_starts |-> starts]

\* "Generate symbols" with nothing pushed to symbol_indexes for a symbol of a
\* dropped section (a plausible slip)
GenerateSymbolSkipDropped(st, image, symbol, section_indexes) ==
    IF symbol.kind \in {"Null", "File"}
    THEN [st EXCEPT !.symbol_indexes = Append(@, None)]
    ELSE IF symbol.section.t = "Section" /\ section_indexes[symbol.section.idx] = None
    THEN st
    ELSE LET sym == ToObjSymbol(image, symbol, section_indexes, None) IN
         IF ~sym.ok THEN Bail(st)
         ELSE [st EXCEPT !.symbol_indexes = Append(@, Some(Len(st.symbols) + 1)),
                         !.symbols = Append(@, sym.val)]

\* process_elf: "Generate symbols", the tail of the loop body
GenerateSymbol(st, image, symbol, section_indexes) ==
    IF \/ symbol.kind \in {"Null", "File"}
       \/ (symbol.section.t = "Section" /\ section_indexes[symbol.section.idx] = None)
    THEN [st EXCEPT !.symbol_indexes = Append(@, None)]
    ELSE LET sym == ToObjSymbol(image, symbol, section_indexes, None) IN
         IF ~sym.ok THEN Bail(st)
         ELSE [st EXCEPT !.symbol_indexes = Append(@, Some(Len(st.symbols) + 1)),
                         !.symbols = Append(@, sym.val)]

\* process_elf: SymbolKind::File
ScanFileSymbol(st, image, symbol, section_indexes) ==
    LET file_name == symbol.name IN
    IF IsPchFileName(file_name)
    THEN [st EXCEPT !.symbol_indexes = Append(@, None)]
    ELSE LET st1 == IF image.kind = "Relocatable"
                    THEN [st EXCEPT !.obj_name = file_name] ELSE st
             reg == RegisterUnit(st1, file_name)
             tr == FileTransition(st1.boundary_state, reg.section_starts, reg.file_name)
         IN  IF reg.err THEN Bail(st)
             ELSE GenerateSymbol(
                      [st1 EXCEPT !.section_starts = tr.section_starts,
                                  !.name_to_index = reg.name_to_index,
                                  !.boundary_state = tr.boundary_state],
                      image, symbol, section_indexes)

\* process_elf: SymbolKind::Section
ScanSectionSymbol(st, image, symbol, section_indexes) ==
    IF symbol.section.t # "Section" THEN Bail(st)
    ELSE
    LET section_index == symbol.section.idx
        section_name == image.sections[section_index].name
        entry == <<symbol.address, section_name>>
        bs == st.boundary_state
        st1 == CASE bs.tag = "LookForFile" ->
                      [st EXCEPT !.boundary_state = LookForFile(Append(bs.queue, entry))]
                 [] bs.tag = "LookForSections" ->
                      IF section_indexes[section_index] # None
                      THEN IF ~HasKey(st.section_starts, bs.file_name) THEN Bail(st)
                           ELSE [st EXCEPT
                                   !.section_starts[KeyIndex(st.section_starts, bs.file_name)].entries =
                                       Append(@, entry)]
                      ELSE st
                 [] bs.tag = "FilesEnded" -> st
    IN  IF st1.err THEN st1 ELSE GenerateSymbol(st1, image, symbol, section_indexes)

\* process_elf: placeholder patching and boundary synthesis, on one unit's Vec
PatchOrPush(sections, address, section_name) ==
    IF \E i \in 1..Len(sections) : sections[i][1] = 0 /\ sections[i][2] = section_name
    THEN LET i == MinOf({j \in 1..Len(sections) :
                           sections[j][1] = 0 /\ sections[j][2] = section_name})
         IN  [sections EXCEPT ![i] = <<address, section_name>>]
    ELSE IF ~(\E i \in 1..Len(sections) : sections[i][2] = section_name)
         THEN Append(sections, <<address, section_name>>)
         ELSE sections

\* process_elf: any other symbol kind
ScanOtherSymbol(st, image, symbol, section_indexes) ==
    LET bs == st.boundary_state
        st1 == CASE symbol.section.t = "Absolute" ->
                      [st EXCEPT !.boundary_state = FilesEnded]
                 [] symbol.section.t = "Section" ->
                      IF bs.tag = "LookForSections" /\ section_indexes[symbol.section.idx] # None
                      THEN IF ~HasKey(st.section_starts, bs.file_name) THEN Bail(st)
                           ELSE [st EXCEPT
                                   !.section_starts[KeyIndex(st.section_starts, bs.file_name)].entries =
                                       PatchOrPush(@, symbol.address,
                                                   image.sections[symbol.section.idx].name)]
                      ELSE st
                 [] symbol.section.t \in {"Common", "Undefined"} -> st
                 [] OTHER -> Bail(st)
    IN  IF st1.err THEN st1 ELSE GenerateSymbol(st1, image, symbol, section_indexes)

\* process_elf: the body of `for symbol in obj_file.symbols()`
ScanSymbol(st, image, symbol, section_indexes) ==
    CASE symbol.kind = "File" -> ScanFileSymbol(st, image, symbol, section_indexes)
      [] symbol.kind = "Section" -> ScanSectionSymbol(st, image, symbol, section_indexes)
      [] OTHER -> ScanOtherSymbol(st, image, symbol, section_indexes)

\* process_elf: the locals before the symbol loop
ScanStart ==
    [boundary_state |-> LookForFile(<<>>), section_starts |-> <<>>,
     name_to_index |-> EmptyMap, symbol_indexes |-> <<>>, symbols |-> <<>>,
     obj_name |-> "", err |-> FALSE]


(***************************************************************************)
(* The symbol scan of process_elf as a state machine: one action per       *)
(* symbol kind, the symbol drawn from a bounded alphabet.                  *)
(***************************************************************************)
MaxSyms == 3

ScanSections(base) ==
    <<[name |-> ".text", kind |-> "Text", address |-> base, size |-> 8,
       data |-> <<>>, align |-> 4, relocations |-> <<>>],
      [name |-> ".data", kind |-> "Data", address |-> base + 8, size |-> 4,
       data |-> <<>>, align |-> 4, relocations |-> <<>>],
      [name |-> ".debug", kind |-> "Other", address |-> 0, size |-> 4,
       data |-> <<>>, align |-> 1, relocations |-> <<>>]>>

ScanImages ==
    {[kind |-> "Executable", sections |-> ScanSections(4), symbols |-> <<>>],
     [kind |-> "Relocatable", sections |-> ScanSections(0), symbols |-> <<>>]}

ScanFileNames == {"a.c", "a.c_1", "stdafx.cpp", "Precompiled.cpp", "MyPCH.cpp"}
ScanSectionSyms ==
    {ElfSym("Section", "", a, InSection(i), "Local") : a \in {0, 4}, i \in {1, 3}}
ScanOtherSyms ==
    {ElfSym("Unknown", "_stack_addr", 16, Absolute, "Global"),
     ElfSym("Text", "f", 0, InSection(1), "Global"),
     ElfSym("Text", "g", 4, InSection(1), "Local"),
     ElfSym("Data", "d", 12, InSection(2), "Global"),
     ElfSym("Unknown", "ext", 0, Undefined, "Global")}

ScanFrame ==
    [boundary_state |-> boundary_state, section_starts |-> section_starts,
     name_to_index |-> name_to_index, symbol_indexes |-> symbol_indexes,
     symbols |-> symbols, obj_name |-> obj_name, err |-> FALSE]

\* The scanner variables when no read is in progress.
ScanIdle ==
    /\ elf = [kind |-> "Executable", sections |-> <<>>, symbols |-> <<>>]
    /\ boundary_state = ScanStart.boundary_state
    /\ section_starts = ScanStart.section_starts
    /\ name_to_index = ScanStart.name_to_index
    /\ symbol_indexes = ScanStart.symbol_indexes
    /\ symbols = ScanStart.symbols
    /\ obj_name = ScanStart.obj_name
    /\ read_state = "scan"

\* process_elf up to the symbol loop
InitScan ==
    /\ elf \in ScanImages
    /\ boundary_state = ScanStart.boundary_state
    /\ section_starts = ScanStart.section_starts
    /\ name_to_index = ScanStart.name_to_index
    /\ symbol_indexes = ScanStart.symbol_indexes
    /\ symbols = ScanStart.symbols
    /\ obj_name = ScanStart.obj_name
    /\ read_state = "scan"
    /\ SplitsIdle
    /\ WriteIdle

\* One iteration of the symbol loop on `symbol`, the next entry of the table.
Scan(symbol) ==
    /\ read_state = "scan"
    /\ LET st == ScanSymbol(ScanFrame, elf, symbol, SectionsOf(elf).section_indexes) IN
       /\ elf' = [elf EXCEPT !.symbols = Append(@, symbol)]
       /\ boundary_state' = st.boundary_state
       /\ section_starts' = st.section_starts
       /\ name_to_index' = st.name_to_index
       /\ symbol_indexes' = st.symbol_indexes
       /\ symbols' = st.symbols
       /\ obj_name' = st.obj_name
       /\ read_state' = IF st.err THEN "failed" ELSE "scan"
    /\ UNCHANGED <<splitVars, writeVars>>

\* The null symbol, entry 0 of every symbol table
ScanNull == Len(elf.symbols) = 0 /\ Scan(NullSym)

ScanFile(name) ==
    /\ Len(elf.symbols) \in 1..MaxSyms
    /\ Scan(ElfSym("File", name, 0, Absolute, "Local"))

ScanSection(symbol) == Len(elf.symbols) \in 1..MaxSyms /\ Scan(symbol)

ScanOther(symbol) == Len(elf.symbols) \in 1..MaxSyms /\ Scan(symbol)

NextScan ==
    \/ ScanNull
    \/ \E name \in ScanFileNames : ScanFile(name)
    \/ \E symbol \in ScanSectionSyms : ScanSection(symbol)
    \/ \E symbol \in ScanOtherSyms : ScanOther(symbol)

SpecScan == InitScan /\ [][NextScan]_vars


(***************************************************************************)
(* Claims about the symbol scan (checked under SpecScan).                  *)
(***************************************************************************)
\* The symbol the step from the unprimed to the primed state has scanned.
Scanned(symbol) ==
    /\ read_state = "scan"
    /\ elf'.symbols = Append(elf.symbols, symbol)
LastScanned == elf.symbols[Len(elf.symbols)]
PchPlaceholders == {"Precompiled.cpp", "stdafx.cpp"}

\* C9: a FILE symbol named like a known precompiled-header placeholder is
\* discarded in every scanner state: no unit is created, the scanner state, the
\* pending queue and every unit's boundary list are unchanged, and the symbol
\* is recorded as dropped in the symbol index table.
C9_PchFileDiscarded ==
    [][\A name \in PchPlaceholders :
          Scanned(ElfSym("File", name, 0, Absolute, "Local")) =>
              /\ section_starts' = section_starts
              /\ boundary_state' = boundary_state
              /\ name_to_index' = name_to_index
              /\ symbols' = symbols
              /\ symbol_indexes' = Append(symbol_indexes, None)
              /\ read_state' = "scan"]_vars

\* C9 witness: a placeholder FILE symbol was just scanned while section
\* boundaries are buffered in LookForFile.
C9_Witness ==
    /\ Len(elf.symbols) >= 3
    /\ LastScanned.kind = "File" /\ LastScanned.name = "stdafx.cpp"
    /\ boundary_state.tag = "LookForFile" /\ boundary_state.queue # <<>>
    /\ section_starts = <<>>
    /\ symbol_indexes[Len(symbol_indexes)] = None

NamesDistinct(map) ==
    \A i, j \in 1..Len(map) : map[i].name = map[j].name => i = j

\* C10: a FILE symbol whose name is already registered is registered under
\* the generated name <name>_<n> and the scan continues, unless the generated
\* name is registered too, in which case the read fails; and the registered
\* unit names of a read that has not failed are pairwise distinct.
C10_DuplicateUnitName ==
    /\ [](read_state # "failed" => NamesDistinct(section_starts))
    /\ [][\A name \in ScanFileNames :
            (/\ Scanned(ElfSym("File", name, 0, Absolute, "Local"))
             /\ ~IsPchFileName(name)
             /\ HasKey(section_starts, name)) =>
                LET n == IF name \in DOMAIN name_to_index
                         THEN name_to_index[name] + 1 ELSE 1
                    generated == name \o "_" \o DecStr(n)
                IN  IF HasKey(section_starts, generated)
                    THEN read_state' = "failed"
                    ELSE /\ read_state' = "scan"
                         /\ Keys(section_starts') = Append(Keys(section_starts), generated)]_vars

\* C10 witness: "a.c" was registered, then "a.c_1", and a second "a.c" whose
\* generated name "a.c_1" collides has made the read fail.
C10_Witness ==
    /\ read_state = "failed"
    /\ Keys(section_starts) = <<"a.c", "a.c_1">>
    /\ LastScanned.kind = "File" /\ LastScanned.name = "a.c"

\* A FILE symbol that is not denylisted is scanned, without failing, while
\* section boundaries are buffered in LookForFile.
FlushingFile(symbol) ==
    /\ symbol.kind = "File" /\ ~IsPchFileName(symbol.name)
    /\ Scanned(symbol)
    /\ boundary_state.tag = "LookForFile" /\ boundary_state.queue # <<>>
    /\ read_state' = "scan"

\* The unit registered last, and the boundary lists of the units before it
LastUnit(map) == map[Len(map)]
EarlierUnits(map) == SubSeq(map, 1, Len(map) - 1)

ScanFileSyms == {ElfSym("File", name, 0, Absolute, "Local") : name \in ScanFileNames}

\* C15: when a FILE symbol that is not denylisted arrives in LookForFile with a
\* non-empty queue, the whole queue becomes the new unit's boundary entries,
\* in queue order, and the scanner state becomes LookForSections(name).
C15_FlushMovesToLookForSections ==
    [][\A symbol \in ScanFileSyms :
          FlushingFile(symbol) =>
              /\ LastUnit(section_starts').entries = boundary_state.queue
              /\ EarlierUnits(section_starts') = section_starts
              /\ boundary_state' = LookForSections(LastUnit(section_starts').name)]_vars

\* C15, amended: when a FILE symbol that is not denylisted arrives in
\* LookForFile with a non-empty queue, the whole queue becomes the new unit's
\* boundary entries, in queue order, every other unit's list is unchanged, and
\* the scanner stays in LookForFile with the queue emptied; in LookForFile a
\* SECTION symbol is only buffered, for the next FILE symbol, and an ordinary
\* symbol of a section adds no boundary entry to any unit.
C15_FlushStaysInLookForFile ==
    /\ [][\A symbol \in ScanFileSyms :
            FlushingFile(symbol) =>
                /\ LastUnit(section_starts').entries = boundary_state.queue
                /\ EarlierUnits(section_starts') = section_starts
                /\ boundary_state' = LookForFile(<<>>)]_vars
    /\ [][\A symbol \in ScanSectionSyms :
            (Scanned(symbol) /\ boundary_state.tag = "LookForFile") =>
                /\ section_starts' = section_starts
                /\ boundary_state' =
                      LookForFile(Append(boundary_state.queue,
                          <<symbol.address, elf.sections[symbol.section.idx].name>>))]_vars
    /\ [][\A symbol \in ScanOtherSyms :
            (/\ Scanned(symbol) /\ boundary_state.tag = "LookForFile"
             /\ symbol.section.t = "Section") =>
                /\ section_starts' = section_starts
                /\ boundary_state' = boundary_state]_vars

\* C15 witness: a SECTION symbol was buffered, a FILE symbol took it as its
\* unit's first entry, and the SECTION symbol that followed is buffered again
\* rather than given to that unit.
C15_Witness ==
    /\ read_state = "scan"
    /\ Len(elf.symbols) = 4
    /\ elf.symbols[2].kind = "Section" /\ elf.symbols[2].section = InSection(1)
    /\ elf.symbols[3].kind = "File"
    /\ LastScanned.kind = "Section" /\ LastScanned.section = InSection(1)
    /\ Len(section_starts) = 1
    /\ section_starts[1].entries = <<<<elf.symbols[2].address, ".text">>>>
    /\ boundary_state = LookForFile(<<<<LastScanned.address, ".text">>>>)


\* The names of the sections of the input that process_elf drops
DroppedSectionNames ==
    {elf.sections[i].name : i \in {j \in 1..Len(elf.sections) : ~SectionKept(elf.sections[j])}}

\* C17: a SECTION symbol whose section was dropped never contributes a
\* boundary entry to any unit, in whichever scanner state it is seen: no
\* unit's boundary list holds an entry of a dropped section.  (The sections of
\* the inputs have distinct names, and only SECTION symbols refer to the
\* dropped one.)
C17_DroppedSectionNoBoundary ==
    \A i \in 1..Len(section_starts) :
        \A k \in 1..Len(section_starts[i].entries) :
            section_starts[i].entries[k][2] \notin DroppedSectionNames


\* The symbol just scanned is an ordinary one (neither FILE nor SECTION nor
\* the null entry) that is absolute.
AbsoluteOrdinary(symbol) ==
    symbol.kind \notin {"File", "Section", "Null"} /\ symbol.section.t = "Absolute"

\* Every unit's boundary list is as before; a unit added has an empty list.
BoundaryListsKept ==
    /\ Len(section_starts') >= Len(section_starts)
    /\ \A i \in 1..Len(section_starts) : section_starts'[i] = section_starts[i]
    /\ \A i \in (Len(section_starts) + 1)..Len(section_starts') :
          section_starts'[i].entries = <<>>

\* C27: an absolute ordinary symbol moves the scanner to FilesEnded from any
\* state, the pending queue of LookForFile going to no unit; in FilesEnded no
\* symbol changes the state, and no boundary entry is added to or patched in
\* any unit's list.
C27_FilesEndedAbsorbing ==
    [][/\ \A symbol \in ScanOtherSyms :
             (Scanned(symbol) /\ AbsoluteOrdinary(symbol)) =>
                 /\ boundary_state' = FilesEnded
                 /\ section_starts' = section_starts
                 /\ read_state' = "scan"
       /\ (read_state = "scan" /\ boundary_state.tag = "FilesEnded") =>
             /\ boundary_state' = FilesEnded
             /\ BoundaryListsKept]_vars

\* C27 witness: a SECTION symbol was queued, an absolute symbol ended the
\* files, and a FILE symbol came after; the scanner is still in FilesEnded,
\* the unit of the FILE symbol has no boundary entry.
C27_Witness ==
    /\ read_state = "scan"
    /\ Len(elf.symbols) = 4
    /\ elf.symbols[2].kind = "Section" /\ elf.symbols[2].section.idx = 1
    /\ AbsoluteOrdinary(elf.symbols[3])
    /\ elf.symbols[4].kind = "File" /\ elf.symbols[4].name = "a.c"
    /\ boundary_state = FilesEnded
    /\ section_starts = <<[name |-> "a.c", entries |-> <<>>]>>


\* str::to_lowercase on ASCII text
UpperCase == "ABCDEFGHIJKLMNOPQRSTUVWXYZ"
LowerCase == "abcdefghijklmnopqrstuvwxyz"
RECURSIVE ToLower(_)
ToLower(s) ==
    IF Len(s) = 0 THEN ""
    ELSE LET c == SubSeq(s, 1, 1)
             at == {i \in 1..Len(UpperCase) : SubSeq(UpperCase, i, i) = c}
         IN  (IF at = {} THEN c ELSE SubSeq(LowerCase, MinOf(at), MinOf(at)))
             \o ToLower(SubSeq(s, 2, Len(s)))

\* A name that holds "precompiled" or "pch" in any case, is a placeholder, or
\* has the header extension
PchLikeName(name) ==
    \/ Contains(ToLower(name), "precompiled")
    \/ Contains(ToLower(name), "pch")
    \/ name \in PchPlaceholders
    \/ EndsWith(name, ".h")

\* C28: a FILE symbol is dropped (no unit, the symbol recorded as dropped)
\* whenever its name holds "precompiled" or "pch" in any case, is a known
\* placeholder or has a header extension; every other FILE name creates a unit.
C28_DenylistIgnoresCase ==
    [][\A name \in ScanFileNames :
          Scanned(ElfSym("File", name, 0, Absolute, "Local")) =>
              IF PchLikeName(name)
              THEN /\ section_starts' = section_starts
                   /\ symbol_indexes' = Append(symbol_indexes, None)
              ELSE \/ read_state' = "failed"
                   \/ Len(section_starts') = Len(section_starts) + 1]_vars


(***************************************************************************)
(* write_elf: the symbol pass, on the frame                                *)
(*   w = [out_symbols, symbol_map, num_local, symtab_num,                  *)
(*        section_symbol_offset, comment_data, err]                        *)
(* symtab_num is the Writer's count of reserved symbol-table entries (what *)
(* writer.symbol_count() returns).  Symbol-table indices are the numbers   *)
(* written to the file: 0 is the null entry.  Section indices are          *)
(* positions in obj.sections, the first being 1, which is also the index   *)
(* write_elf reserves for that section's header.                           *)
(*   obj = [kind, name, sections, symbols, mw_comment, link_order]         *)
(***************************************************************************)
\* object::write::elf::Writer::reserve_symbol_index; [index, symtab_num]
ReserveSymbolIndex(count) ==
    LET n == IF count = 0 THEN 1 ELSE count IN
    [index |-> n, symtab_num |-> n + 1]

\* Path::new(&obj.name).file_name(), or the name itself
RECURSIVE Basename(_)
Basename(name) ==
    IF \E i \in 1..Len(name) : SubSeq(name, i, i) = "/"
    THEN LET i == MinOf({j \in 1..Len(name) : SubSeq(name, j, j) = "/"})
         IN  IF i = Len(name) THEN name ELSE Basename(SubSeq(name, i + 1, Len(name)))
    ELSE name

\* util::comment::CommentSym
CommentSym(align) == [align |-> align, vis_flags |-> 0, active_flags |-> 0]

\* CommentSym::from(symbol, true)
CommentSymFrom(symbol) == CommentSym(IF symbol.align = None THEN 0 ELSE Unwrap(symbol.align))

\* write_comment_sym(comment_data, ..) when a comment section is generated
PushComment(data, record) ==
    IF data = None THEN None ELSE Some(Append(Unwrap(data), record))

\* write_elf: "Generate comment section"
WriterStart(o) ==
    [out_symbols |-> <<>>,
     symbol_map |-> [i \in 1..Len(o.symbols) |-> None],
     num_local |-> 0,
     symtab_num |-> 0,
     section_symbol_offset |-> 0,
     comment_data |-> IF o.mw_comment = None THEN None ELSE Some(<<CommentSym(0)>>),
     err |-> FALSE]

\* write_elf: "Add file symbol"
AddFileSymbol(w, o) ==
    IF o.name = "" THEN w
    ELSE LET r == ReserveSymbolIndex(w.symtab_num)
             sym == [name |-> Some(Basename(o.name)), section |-> None,
                     st_type |-> "STT_FILE", st_bind |-> "STB_LOCAL",
                     st_other |-> "STV_DEFAULT", st_shndx |-> "SHN_ABS",
                     st_value |-> 0, st_size |-> 0]
         IN  [w EXCEPT !.symtab_num = r.symtab_num,
                       !.out_symbols = Append(@, [index |-> r.index, sym |-> sym]),
                       !.comment_data = PushComment(@, CommentSym(1)),
                       !.section_symbol_offset = @ + 1]

\* write_elf: "Add section symbols for relocatable objects", one iteration
AddSectionSymbol(w, o, section_index) ==
    LET r == ReserveSymbolIndex(w.symtab_num)
        sym == [name |-> None, section |-> Some(section_index),
                st_type |-> "STT_SECTION", st_bind |-> "STB_LOCAL",
                st_other |-> "STV_DEFAULT", st_shndx |-> 0,
                st_value |-> 0, st_size |-> 0]
    IN  [w EXCEPT !.symtab_num = r.symtab_num,
                  !.num_local = r.symtab_num,
                  !.out_symbols = Append(@, [index |-> r.index, sym |-> sym]),
                  !.comment_data = PushComment(@, CommentSym(o.sections[section_index].align))]

IsLocal(symbol) == "Local" \in symbol.flags

HasRelocations(section) == DOMAIN section.relocations # {}

\* write_elf: the section header index reserved for the .comment section
CommentSectionIndex(o) ==
    Len(o.sections)
    + Cardinality({i \in 1..Len(o.sections) : HasRelocations(o.sections[i])}) + 4

\* write_elf: out_sections.get(idx).map(|s| s.index)
OutSectionIndex(o, idx) ==
    IF idx <= Len(o.sections) THEN Some(idx)
    ELSE IF idx = Len(o.sections) + 1 /\ o.mw_comment # None
         THEN Some(CommentSectionIndex(o))
         ELSE None

\* write_elf: the symbol loop in model order, locals not first (a plausible slip)
SymbolOrderAsModel(o) == [i \in 1..Len(o.symbols) |-> i]

\* write_elf: the order of the symbol loop, local-flagged symbols first
SymbolOrder(o) ==
    SelectSeq([i \in 1..Len(o.symbols) |-> i], LAMBDA i : IsLocal(o.symbols[i]))
    \o SelectSeq([i \in 1..Len(o.symbols) |-> i], LAMBDA i : ~IsLocal(o.symbols[i]))

\* write_elf: st_bind of a symbol
StBind(symbol) ==
    IF "Weak" \in symbol.flags THEN "STB_WEAK"
    ELSE IF "Local" \in symbol.flags THEN "STB_LOCAL"
    ELSE "STB_GLOBAL"

\* write_elf: "Add symbols, starting with local symbols", one iteration
AddSymbol(w, o, symbol_index) ==
    LET symbol == o.symbols[symbol_index] IN
    IF o.kind = "Relocatable" /\ symbol.kind = "Section"
    THEN IF symbol.section = None THEN [w EXCEPT !.err = TRUE]
         ELSE [w EXCEPT !.symbol_map[symbol_index] =
                   Some(w.section_symbol_offset + (Unwrap(symbol.section) - 1))]
    ELSE
    LET section_index ==
            IF symbol.section = None THEN None
            ELSE OutSectionIndex(o, Unwrap(symbol.section))
        r == ReserveSymbolIndex(w.symtab_num)
        sym == [name |-> IF symbol.name = "" THEN None ELSE Some(symbol.name),
                section |-> section_index,
                st_type |-> CASE symbol.kind = "Unknown" -> "STT_NOTYPE"
                              [] symbol.kind = "Function" -> "STT_FUNC"
                              [] symbol.kind = "Object" -> "STT_OBJECT"
                              [] symbol.kind = "Section" -> "STT_SECTION",
                st_bind |-> StBind(symbol),
                st_other |-> IF "Hidden" \in symbol.flags THEN "STV_HIDDEN" ELSE "STV_DEFAULT",
                st_shndx |-> IF section_index # None THEN 0
                             ELSE IF "Common" \in symbol.flags THEN "SHN_COMMON"
                             ELSE IF symbol.address # 0 THEN "SHN_ABS"
                             ELSE "SHN_UNDEF",
                st_value |-> symbol.address,
                st_size |-> symbol.size]
    IN  [w EXCEPT !.symtab_num = r.symtab_num,
                  !.num_local = IF sym.st_bind = "STB_LOCAL" THEN r.symtab_num ELSE @,
                  !.out_symbols = Append(@, [index |-> r.index, sym |-> sym]),
                  !.symbol_map[symbol_index] = Some(r.index),
                  !.comment_data = PushComment(@, CommentSymFrom(symbol))]

\* write_elf: writer.write_null_symbol() and the write_symbol loop
NullOutSym ==
    [name |-> None, section |-> None, st_type |-> "STT_NOTYPE", st_bind |-> "STB_LOCAL",
     st_other |-> "STV_DEFAULT", st_shndx |-> "SHN_UNDEF", st_value |-> 0, st_size |-> 0]

WrittenSymtab(w) ==
    IF w.symtab_num = 0 THEN <<>>
    ELSE <<NullOutSym>> \o [i \in 1..Len(w.out_symbols) |-> w.out_symbols[i].sym]


(***************************************************************************)
(* 32-bit words and bytes.  A u32 is held as its two 16-bit halves          *)
(* [hi, lo], value hi * 2^16 + lo with hi, lo in 0..65535; an i64 is held   *)
(* the same way with hi any integer, so it is negative exactly when hi < 0. *)
(***************************************************************************)
\* the u32 of a number below 2^31
U32(n) == [hi |-> n \div 65536, lo |-> n % 65536]

\* u32::from_be_bytes
FromBeBytes(b) == [hi |-> b[1] * 256 + b[2], lo |-> b[3] * 256 + b[4]]

\* u32::to_be_bytes
ToBeBytes(x) == <<x.hi \div 256, x.hi % 256, x.lo \div 256, x.lo % 256>>

\* `&` on 16-bit halves
RECURSIVE BitAnd16(_, _)
BitAnd16(x, y) ==
    IF x = 0 \/ y = 0 THEN 0
    ELSE (x % 2) * (y % 2) + 2 * BitAnd16(x \div 2, y \div 2)

\* `&` on u32
BitAnd(x, y) == [hi |-> BitAnd16(x.hi, y.hi), lo |-> BitAnd16(x.lo, y.lo)]

\* `!` on u32
U32Not(x) == [hi |-> 65535 - x.hi, lo |-> 65535 - x.lo]

Addr16Mask == 65535
Rel24Mask == 67108860
Rel14Mask == 65532
EmbSda21Mask == 2097151

RelocKinds ==
    {"Absolute", "PpcAddr16Hi", "PpcAddr16Ha", "PpcAddr16Lo", "PpcRel24", "PpcRel14",
     "PpcEmbSda21"}

\* write_relocatable_section_data: the match on reloc.kind, with the Rel14
\* field cleared for Rel24 as well (a plausible slip)
MaskInsRel24AsRel14(kind, ins) ==
    CASE kind = "Absolute" -> U32(0)
      [] kind \in {"PpcAddr16Hi", "PpcAddr16Ha", "PpcAddr16Lo"} ->
            BitAnd(ins, U32Not(U32(Addr16Mask)))
      [] kind = "PpcRel24" -> BitAnd(ins, U32Not(U32(Rel14Mask)))
      [] kind = "PpcRel14" -> BitAnd(ins, U32Not(U32(Rel14Mask)))
      [] kind = "PpcEmbSda21" -> BitAnd(ins, U32Not(U32(EmbSda21Mask)))

\* write_relocatable_section_data: the match on reloc.kind
MaskIns(kind, ins) ==
    CASE kind = "Absolute" -> U32(0)
      [] kind \in {"PpcAddr16Hi", "PpcAddr16Ha", "PpcAddr16Lo"} ->
            BitAnd(ins, U32Not(U32(Addr16Mask)))
      [] kind = "PpcRel24" -> BitAnd(ins, U32Not(U32(Rel24Mask)))
      [] kind = "PpcRel14" -> BitAnd(ins, U32Not(U32(Rel14Mask)))
      [] kind = "PpcEmbSda21" -> BitAnd(ins, U32Not(U32(EmbSda21Mask)))

\* &data[from..to] with from, to counted from 0; Err is the slice panic
Slice(data, from, to) ==
    IF from > to \/ to > Len(data) THEN Err ELSE Ok(SubSeq(data, from + 1, to))

\* write_relocatable_section_data: the loop over section.relocations;
\* acc = [out, current_address, err]
RECURSIVE MaskRelocations(_, _, _)
MaskRelocations(section, addrs, acc) ==
    IF addrs = <<>> \/ acc.err THEN acc
    ELSE LET addr == Head(addrs)
             before == Slice(section.data, acc.current_address, addr)
             site == Slice(section.data, addr, addr + 4)
         IN  IF ~before.ok \/ ~site.ok THEN [acc EXCEPT !.err = TRUE]
             ELSE MaskRelocations(section, Tail(addrs),
                      [out |-> acc.out \o before.val
                                  \o ToBeBytes(MaskIns(section.relocations[addr].kind,
                                                       FromBeBytes(site.val))),
                       current_address |-> addr + 4,
                       err |-> FALSE])

\* write_relocatable_section_data
WriteRelocatableSectionData(section) ==
    IF section.address # 0 THEN Err
    ELSE LET acc == MaskRelocations(section, SortedSeq(DOMAIN section.relocations),
                        [out |-> <<>>, current_address |-> 0, err |-> FALSE])
             rest == Slice(section.data, acc.current_address, Len(section.data))
         IN  IF acc.err \/ ~rest.ok THEN Err ELSE Ok(acc.out \o rest.val)


(***************************************************************************)
(* write_elf: the reserve phase check and the regions of the write phase.  *)
(* The output is the sequence of regions emitted so far; a region is       *)
(* [region, section, body].                                                *)
(***************************************************************************)
\* write_elf: ensure!(section.data.len() as u64 == section.size), forgotten
\* (a plausible slip)
SizesOkUnchecked(o) == TRUE

\* write_elf: ensure!(section.data.len() as u64 == section.size) for every
\* section that is not Bss
SizesOk(o) ==
    \A i \in 1..Len(o.sections) :
        o.sections[i].kind = "Bss" \/ Len(o.sections[i].data) = o.sections[i].size

Region(region, section, body) == [region |-> region, section |-> section, body |-> body]

\* `& !3` on an offset
WordAlign(a) == a - (a % 4)

\* r_offset and r_type of a relocation, with the offset of the three
\* word-sized PowerPC kinds left unrounded (a plausible slip)
RelOffsetTypeUnrounded(reloc_address, kind) ==
    CASE kind = "Absolute" ->
            [r_offset |-> reloc_address,
             r_type |-> IF reloc_address % 4 = 0 THEN "R_PPC_ADDR32" ELSE "R_PPC_UADDR32"]
      [] kind = "PpcAddr16Hi" ->
            [r_offset |-> WordAlign(reloc_address) + 2, r_type |-> "R_PPC_ADDR16_HI"]
      [] kind = "PpcAddr16Ha" ->
            [r_offset |-> WordAlign(reloc_address) + 2, r_type |-> "R_PPC_ADDR16_HA"]
      [] kind = "PpcAddr16Lo" ->
            [r_offset |-> WordAlign(reloc_address) + 2, r_type |-> "R_PPC_ADDR16_LO"]
      [] kind = "PpcRel24" ->
            [r_offset |-> reloc_address, r_type |-> "R_PPC_REL24"]
      [] kind = "PpcRel14" ->
            [r_offset |-> reloc_address, r_type |-> "R_PPC_REL14"]
      [] kind = "PpcEmbSda21" ->
            [r_offset |-> reloc_address, r_type |-> "R_PPC_EMB_SDA21"]

\* write_elf: r_offset and r_type of a relocation
RelOffsetType(reloc_address, kind) ==
    CASE kind = "Absolute" ->
            [r_offset |-> reloc_address,
             r_type |-> IF reloc_address % 4 = 0 THEN "R_PPC_ADDR32" ELSE "R_PPC_UADDR32"]
      [] kind = "PpcAddr16Hi" ->
            [r_offset |-> WordAlign(reloc_address) + 2, r_type |-> "R_PPC_ADDR16_HI"]
      [] kind = "PpcAddr16Ha" ->
            [r_offset |-> WordAlign(reloc_address) + 2, r_type |-> "R_PPC_ADDR16_HA"]
      [] kind = "PpcAddr16Lo" ->
            [r_offset |-> WordAlign(reloc_address) + 2, r_type |-> "R_PPC_ADDR16_LO"]
      [] kind = "PpcRel24" ->
            [r_offset |-> WordAlign(reloc_address), r_type |-> "R_PPC_REL24"]
      [] kind = "PpcRel14" ->
            [r_offset |-> WordAlign(reloc_address), r_type |-> "R_PPC_REL14"]
      [] kind = "PpcEmbSda21" ->
            [r_offset |-> WordAlign(reloc_address), r_type |-> "R_PPC_EMB_SDA21"]

\* write_elf: the relocation records of one section; Err when a target has no
\* entry in symbol_map
RelocationRecords(section, map) ==
    LET addrs == SortedSeq(DOMAIN section.relocations) IN
    IF \E a \in DOMAIN section.relocations :
           map[section.relocations[a].target_symbol] = None
    THEN Err
    ELSE Ok([i \in 1..Len(addrs) |->
               LET reloc == section.relocations[addrs[i]]
                   ot == RelOffsetType(addrs[i], reloc.kind)
               IN  [r_offset |-> ot.r_offset,
                    r_sym |-> Unwrap(map[reloc.target_symbol]),
                    r_type |-> ot.r_type,
                    r_addend |-> reloc.addend]])

\* Concatenation of the regions f(i) of the sections i in idxs; Err if one is
RECURSIVE ConcatRegions(_, _)
ConcatRegions(results, acc) ==
    IF results = <<>> THEN Ok(acc)
    ELSE IF ~Head(results).ok THEN Err
    ELSE ConcatRegions(Tail(results), acc \o Head(results).val)

\* write_elf: the section data loop of the write phase
SectionDataRegions(o) ==
    ConcatRegions(
        [i \in 1..Len(o.sections) |->
            LET section == o.sections[i] IN
            IF section.kind = "Bss" THEN Ok(<<>>)
            ELSE IF o.kind = "Relocatable"
                 THEN LET d == WriteRelocatableSectionData(section) IN
                      IF d.ok THEN Ok(<<Region("section_data", i, d.val)>>) ELSE Err
                 ELSE Ok(<<Region("section_data", i, section.data)>>)],
        <<>>)

\* write_elf: the relocation table loop of the write phase
RelocationRegions(o, w) ==
    ConcatRegions(
        [i \in 1..Len(o.sections) |->
            LET section == o.sections[i] IN
            IF DOMAIN section.relocations = {} THEN Ok(<<>>)
            ELSE LET r == RelocationRecords(section, w.symbol_map) IN
                 IF r.ok THEN Ok(<<Region("rela", i, r.val)>>) ELSE Err],
        <<>>)

\* write_elf: one section header as written
SectionHeader(name, sh_type, sh_flags, sh_addr, sh_size, sh_info, sh_addralign) ==
    [name |-> name, sh_type |-> sh_type, sh_flags |-> sh_flags, sh_addr |-> sh_addr,
     sh_size |-> sh_size, sh_info |-> sh_info, sh_addralign |-> sh_addralign]

\* write_elf: sh_flags of a model section
SectionFlags(kind) ==
    CASE kind = "Code" -> {"SHF_ALLOC", "SHF_EXECINSTR"}
      [] kind \in {"Data", "Bss"} -> {"SHF_ALLOC", "SHF_WRITE"}
      [] kind = "ReadOnlyData" -> {"SHF_ALLOC"}

\* write_elf: the section headers with each relocation section's header
\* written right after the header of its section (a plausible slip)
RECURSIVE SectionHeadersInterleavedFrom(_, _)
SectionHeadersInterleavedFrom(o, i) ==
    IF i > Len(o.sections) THEN <<>>
    ELSE <<SectionHeader(o.sections[i].name,
                         IF o.sections[i].kind = "Bss" THEN "SHT_NOBITS" ELSE "SHT_PROGBITS",
                         SectionFlags(o.sections[i].kind), o.sections[i].address,
                         o.sections[i].size, 0, o.sections[i].align)>>
         \o (IF DOMAIN o.sections[i].relocations = {} THEN <<>>
             ELSE <<SectionHeader(".rela" \o o.sections[i].name, "SHT_RELA",
                                  {"SHF_INFO_LINK"}, 0,
                                  12 * Cardinality(DOMAIN o.sections[i].relocations), i, 4)>>)
         \o SectionHeadersInterleavedFrom(o, i + 1)

SectionHeadersInterleaved(o, w) ==
    <<SectionHeader("", "SHT_NULL", {}, 0, 0, 0, 0)>>
    \o SectionHeadersInterleavedFrom(o, 1)
    \o <<SectionHeader(".symtab", "SHT_SYMTAB", {}, 0, 16 * w.symtab_num, w.num_local, 4),
         SectionHeader(".strtab", "SHT_STRTAB", {}, 0, 0, 0, 1),
         SectionHeader(".shstrtab", "SHT_STRTAB", {}, 0, 0, 0, 1)>>
    \o (IF w.comment_data = None THEN <<>>
        ELSE <<SectionHeader(".comment", "SHT_PROGBITS", {}, 0,
                             Len(Unwrap(w.comment_data)), 0, 1)>>)

\* write_elf: the section indices in the order reserved; the k-th entry has
\* index k - 1
ReservedSections(o) ==
    <<[of |-> "null", section |-> 0]>>
    \o [i \in 1..Len(o.sections) |-> [of |-> "section", section |-> i]]
    \o SelectSeq([i \in 1..Len(o.sections) |-> [of |-> "rela", section |-> i]],
                 LAMBDA e : HasRelocations(o.sections[e.section]))
    \o <<[of |-> "symtab", section |-> 0], [of |-> "strtab", section |-> 0],
         [of |-> "shstrtab", section |-> 0]>>
    \o (IF o.mw_comment = None THEN <<>> ELSE <<[of |-> "comment", section |-> 0]>>)

\* write_elf: the section headers, in the order written (entry sizes: 12
\* bytes per relocation record, 16 per symbol; the string tables' sizes are
\* not modelled)
SectionHeaders(o, w) ==
    <<SectionHeader("", "SHT_NULL", {}, 0, 0, 0, 0)>>
    \o [i \in 1..Len(o.sections) |->
          SectionHeader(o.sections[i].name,
                        IF o.sections[i].kind = "Bss" THEN "SHT_NOBITS" ELSE "SHT_PROGBITS",
                        SectionFlags(o.sections[i].kind), o.sections[i].address,
                        o.sections[i].size, 0, o.sections[i].align)]
    \o SelectSeq([i \in 1..Len(o.sections) |->
                    SectionHeader(".rela" \o o.sections[i].name, "SHT_RELA",
                                  {"SHF_INFO_LINK"}, 0,
                                  12 * Cardinality(DOMAIN o.sections[i].relocations),
                                  IF DOMAIN o.sections[i].relocations = {} THEN 0 ELSE i, 4)],
                 LAMBDA h : h.sh_info # 0)
    \o <<SectionHeader(".symtab", "SHT_SYMTAB", {}, 0, 16 * w.symtab_num, w.num_local, 4),
         SectionHeader(".strtab", "SHT_STRTAB", {}, 0, 0, 0, 1),
         SectionHeader(".shstrtab", "SHT_STRTAB", {}, 0, 0, 0, 1)>>
    \o (IF w.comment_data = None THEN <<>>
        ELSE <<SectionHeader(".comment", "SHT_PROGBITS", {}, 0,
                             Len(Unwrap(w.comment_data)), 0, 1)>>)

\* write_elf: the regions of the write phase, in the order written
WriteRegions ==
    <<"file_header", "program_headers", "section_data", "relocations", "symtab",
      "strtab", "comment", "section_headers">>

\* write_elf: what one region of the write phase emits
EmitRegion(o, w, region) ==
    CASE region = "file_header" ->
            Ok(<<Region("file_header", 0,
                        <<IF o.kind = "Executable" THEN "ET_EXEC" ELSE "ET_REL">>)>>)
      [] region = "program_headers" ->
            IF o.kind = "Executable"
            THEN Ok(<<Region("program_headers", 0,
                        [i \in 1..Len(o.sections) |->
                            [p_type |-> "PT_LOAD", p_vaddr |-> o.sections[i].address,
                             p_filesz |-> IF o.sections[i].kind = "Bss" THEN 0
                                          ELSE o.sections[i].size,
                             p_memsz |-> o.sections[i].size]])>>)
            ELSE Ok(<<>>)
      [] region = "section_data" -> SectionDataRegions(o)
      [] region = "relocations" -> RelocationRegions(o, w)
      [] region = "symtab" -> Ok(<<Region("symtab", 0, WrittenSymtab(w))>>)
      [] region = "strtab" -> Ok(<<Region("strtab", 0, <<>>), Region("shstrtab", 0, <<>>)>>)
      [] region = "comment" ->
            IF w.comment_data = None THEN Ok(<<>>)
            ELSE Ok(<<Region("comment", 0, Unwrap(w.comment_data))>>)
      [] region = "section_headers" ->
            Ok(<<Region("section_headers", 0, SectionHeaders(o, w))>>)


(***************************************************************************)
(* write_elf: the file offsets of the regions.  The reserve phase gives    *)
(* every region an offset from the sizes known before anything is written; *)
(* the write phase pads to the region's alignment and appends its bytes.   *)
(* A layout is a sequence of [region, section, offset, size].  Sizes in    *)
(* bytes: file header 52, program header 32, relocation record 12, symbol  *)
(* 16, section header 40, metadata header 0x2C, metadata record 8.         *)
(***************************************************************************)
AlignUp(n, align) == ((n + align - 1) \div align) * align

\* object::write::elf::Writer::reserve, which does not align when len is 0
\* (elf.rs:565); [offset, len]
WriterReserve(reserved, size, align) ==
    IF size = 0 THEN [offset |-> reserved, len |-> reserved]
    ELSE [offset |-> AlignUp(reserved, align), len |-> AlignUp(reserved, align) + size]

\* write_elf: the offset of a section's data in the reserve phase, without
\* the branch for a section of size 0 (a plausible slip)
ReserveSectionDataNoZeroCase(reserved, size) == WriterReserve(reserved, size, 32)

\* write_elf: the offset of a section's data in the reserve phase
ReserveSectionData(reserved, size) ==
    IF size = 0
    THEN [offset |-> AlignUp(reserved, 32), len |-> AlignUp(reserved, 32)]
    ELSE WriterReserve(reserved, size, 32)

\* the bytes of a string table holding `names`: a null byte, then each name
\* and its terminator
RECURSIVE StringTableSize(_)
StringTableSize(names) ==
    IF names = <<>> THEN 1 ELSE Len(Head(names)) + 1 + StringTableSize(Tail(names))

\* writer.add_string: the names of the symbols written
StrtabNames(w) ==
    LET named == SelectSeq(w.out_symbols, LAMBDA s : s.sym.name # None)
    IN  [i \in 1..Len(named) |-> Unwrap(named[i].sym.name)]

\* writer.add_section_name: the names of the section headers
ShstrtabNames(o) ==
    [i \in 1..Len(o.sections) |-> o.sections[i].name]
    \o SelectSeq([i \in 1..Len(o.sections) |->
                    IF HasRelocations(o.sections[i])
                    THEN ".rela" \o o.sections[i].name ELSE ""],
                 LAMBDA n : n # "")
    \o <<".symtab", ".strtab", ".shstrtab">>
    \o (IF o.mw_comment = None THEN <<>> ELSE <<".comment">>)

\* write_elf: the number of section header indices reserved
SectionNum(o) ==
    1 + Len(o.sections)
    + Cardinality({i \in 1..Len(o.sections) : HasRelocations(o.sections[i])})
    + 3 + (IF o.mw_comment = None THEN 0 ELSE 1)

\* write_elf: what the reserve phase reserves, in its order, as
\* [region, section, size, align]
Reservations(o, w) ==
    <<[region |-> "file_header", section |-> 0, size |-> 52, align |-> 1]>>
    \o (IF o.kind = "Executable"
        THEN <<[region |-> "program_headers", section |-> 0,
                size |-> 32 * Len(o.sections), align |-> 4]>>
        ELSE <<>>)
    \o SelectSeq([i \in 1..Len(o.sections) |->
                    [region |-> IF o.sections[i].kind = "Bss" THEN "" ELSE "section_data",
                     section |-> i, size |-> Len(o.sections[i].data), align |-> 32]],
                 LAMBDA r : r.region # "")
    \o SelectSeq([i \in 1..Len(o.sections) |->
                    [region |-> IF HasRelocations(o.sections[i]) THEN "rela" ELSE "",
                     section |-> i,
                     size |-> 12 * Cardinality(DOMAIN o.sections[i].relocations),
                     align |-> 4]],
                 LAMBDA r : r.region # "")
    \o <<[region |-> "symtab", section |-> 0, size |-> 16 * w.symtab_num, align |-> 4],
         [region |-> "strtab", section |-> 0,
          size |-> StringTableSize(StrtabNames(w)), align |-> 1],
         [region |-> "shstrtab", section |-> 0,
          size |-> StringTableSize(ShstrtabNames(o)), align |-> 1]>>
    \o (IF w.comment_data = None THEN <<>>
        ELSE <<[region |-> "comment", section |-> 0,
                size |-> 44 + 8 * Len(Unwrap(w.comment_data)), align |-> 32]>>)
    \o <<[region |-> "section_headers", section |-> 0,
          size |-> 40 * SectionNum(o), align |-> 4]>>

\* write_elf: the reserve phase; the layout reserved for the first n
\* reservations and writer.reserved_len() after them, [layout, len]
RECURSIVE ReservedLayout(_, _)
ReservedLayout(reservations, n) ==
    IF n = 0 THEN [layout |-> <<>>, len |-> 0]
    ELSE LET before == ReservedLayout(reservations, n - 1)
             r == reservations[n]
             at == IF r.region = "section_data"
                   THEN ReserveSectionData(before.len, r.size)
                   ELSE WriterReserve(before.len, r.size, r.align)
         IN  [layout |-> Append(before.layout,
                                [region |-> r.region, section |-> r.section,
                                 offset |-> at.offset, size |-> r.size]),
              len |-> at.len]

Reserved(o, w) == ReservedLayout(Reservations(o, w), Len(Reservations(o, w)))

\* the number of bytes the write phase writes for an emitted region
WrittenSize(o, w, r) ==
    CASE r.region = "file_header" -> 52
      [] r.region = "program_headers" -> 32 * Len(r.body)
      [] r.region = "section_data" -> Len(r.body)
      [] r.region = "rela" -> 12 * Len(r.body)
      [] r.region = "symtab" -> 16 * Len(r.body)
      [] r.region = "strtab" -> StringTableSize(StrtabNames(w))
      [] r.region = "shstrtab" -> StringTableSize(ShstrtabNames(o))
      [] r.region = "comment" -> 44 + 8 * Len(r.body)
      [] r.region = "section_headers" -> 40 * Len(r.body)

\* the padding the write phase writes before a region: write_align(32) for
\* section data and the metadata, the Writer's own alignment to 4 for
\* program headers, relocations, symbols and section headers, which it skips
\* together with the region when there is nothing to write
WrittenAlign(r) ==
    CASE r.region \in {"section_data", "comment"} -> 32
      [] r.region \in {"program_headers", "symtab"} /\ r.body = <<>> -> 1
      [] r.region \in {"program_headers", "rela", "symtab", "section_headers"} -> 4
      [] OTHER -> 1

\* write_elf: the write phase; where the first n regions of `out` were
\* written and writer.len() after them, [layout, len]
RECURSIVE WrittenLayout(_, _, _, _)
WrittenLayout(o, w, out, n) ==
    IF n = 0 THEN [layout |-> <<>>, len |-> 0]
    ELSE LET before == WrittenLayout(o, w, out, n - 1)
             r == out[n]
             offset == AlignUp(before.len, WrittenAlign(r))
         IN  [layout |-> Append(before.layout,
                                [region |-> r.region, section |-> r.section,
                                 offset |-> offset, size |-> WrittenSize(o, w, r)]),
              len |-> offset + WrittenSize(o, w, r)]

Written(o, w, out) == WrittenLayout(o, w, out, Len(out))

\* write_elf: the ensure! checkpoints of the write phase on the regions
\* written so far: the data of a section, a relocation table and the
\* metadata start at the offset reserved for them, and after the section
\* headers the length written is the length reserved
CheckpointsOk(o, w, out) ==
    LET written == Written(o, w, out)
        reserved == Reserved(o, w)
    IN  /\ \A i \in 1..Len(out) :
              out[i].region \in {"section_data", "rela", "comment"} =>
                  \E k \in 1..Len(reserved.layout) :
                      /\ reserved.layout[k].region = out[i].region
                      /\ reserved.layout[k].section = out[i].section
                      /\ reserved.layout[k].offset = written.layout[i].offset
        /\ (\E i \in 1..Len(out) : out[i].region = "section_headers") =>
              reserved.len = written.len

\* write_elf: the section symbol loop from section i on
RECURSIVE SectionSymbolsFrom(_, _, _)
SectionSymbolsFrom(w, o, i) ==
    IF i > Len(o.sections) THEN w
    ELSE SectionSymbolsFrom(AddSectionSymbol(w, o, i), o, i + 1)

\* write_elf: the symbol loop over the remaining `order`
RECURSIVE SymbolsFrom(_, _, _)
SymbolsFrom(w, o, order) ==
    IF order = <<>> \/ w.err THEN w
    ELSE SymbolsFrom(AddSymbol(w, o, Head(order)), o, Tail(order))

\* write_elf: the whole symbol pass
SymbolPass(o) ==
    LET w1 == AddFileSymbol(WriterStart(o), o)
        w2 == IF o.kind = "Relocatable" THEN SectionSymbolsFrom(w1, o, 1) ELSE w1
    IN  SymbolsFrom(w2, o, SymbolOrder(o))

\* write_elf: the write phase over the remaining `regions`
RECURSIVE EmitAll(_, _, _, _)
EmitAll(o, w, regions, acc) ==
    IF regions = <<>> THEN Ok(acc)
    ELSE LET r == EmitRegion(o, w, Head(regions)) IN
         IF ~r.ok THEN Err
         ELSE IF ~CheckpointsOk(o, w, acc \o r.val) THEN Err
         ELSE EmitAll(o, w, Tail(regions), acc \o r.val)

\* write_elf
WriteElf(o) ==
    LET w == SymbolPass(o) IN
    IF w.err \/ ~SizesOk(o) THEN Err ELSE EmitAll(o, w, WriteRegions, <<>>)


ObjSymbol(name, kind, section, flags) ==
    [name |-> name, address |-> 0, section |-> section, size |-> 0, size_known |-> TRUE,
     flags |-> flags, kind |-> kind, align |-> None]

\* an i32 or smaller number `as i64`
I64(n) == [hi |-> n \div 65536, lo |-> n % 65536]

ObjReloc(kind, target_symbol, addend) ==
    [kind |-> kind, target_symbol |-> target_symbol, addend |-> addend, module |-> None]

(***************************************************************************)
(* process_elf after the symbol loop: link order, splits, relocations.     *)
(* A relocation of the input is                                            *)
(*   [r_offset, kind, target, addend, implicit]                            *)
(* kind as Relocation::kind() gives it ("Absolute" for R_PPC_ADDR32, the   *)
(* ELF type name otherwise), target [t, idx] with idx the index in the     *)
(* input's symbol table (0 the null entry), addend an i64, implicit what   *)
(* has_implicit_addend() returns.                                          *)
(***************************************************************************)
TargetSymbol(idx) == [t |-> "Symbol", idx |-> idx]
TargetAbsolute == [t |-> "Absolute", idx |-> 0]

ElfReloc(r_offset, kind, target, addend, implicit) ==
    [r_offset |-> r_offset, kind |-> kind, target |-> target, addend |-> addend,
     implicit |-> implicit]

\* the i64 addend is negative
Negative(addend) == addend.hi < 0

\* to_obj_reloc_kind
ToObjRelocKind(kind) ==
    CASE kind = "Absolute" -> Ok("Absolute")
      [] kind = "R_PPC_ADDR16_LO" -> Ok("PpcAddr16Lo")
      [] kind = "R_PPC_ADDR16_HI" -> Ok("PpcAddr16Hi")
      [] kind = "R_PPC_ADDR16_HA" -> Ok("PpcAddr16Ha")
      [] kind = "R_PPC_REL24" -> Ok("PpcRel24")
      [] kind = "R_PPC_REL14" -> Ok("PpcRel14")
      [] kind = "R_PPC_EMB_SDA21" -> Ok("PpcEmbSda21")
      [] OTHER -> Err

\* to_obj_reloc: u32::from_be_bytes(section_data[address..address + 4]) as i64;
\* Err is the slice panic
ImplicitAddend(section_data, address) ==
    LET site == Slice(section_data, address, address + 4) IN
    IF ~site.ok THEN Err
    ELSE LET w == FromBeBytes(site.val) IN Ok([hi |-> w.hi, lo |-> w.lo])

\* to_obj_reloc without ensure!(addend >= 0) (a plausible slip)
ToObjRelocNoEnsure(image, indexes, section_data, address, reloc) ==
    LET reloc_kind == ToObjRelocKind(reloc.kind) IN
    IF ~reloc_kind.ok THEN Err
    ELSE IF reloc.target.t = "Absolute" THEN Ok(None)
    ELSE IF reloc.target.t # "Symbol" THEN Err
    ELSE IF reloc.target.idx + 1 > Len(image.symbols) THEN Err
    ELSE IF indexes[reloc.target.idx + 1] = None THEN Err
    ELSE
    LET symbol == image.symbols[reloc.target.idx + 1]
        target_symbol == Unwrap(indexes[reloc.target.idx + 1])
        addend ==
            IF symbol.kind \in {"Text", "Data", "Unknown", "Label"} THEN Ok(reloc.addend)
            ELSE IF symbol.kind = "Section"
            THEN IF reloc.implicit
                 THEN IF reloc_kind.val = "Absolute"
                      THEN ImplicitAddend(section_data, address)
                      ELSE Err
                 ELSE Ok(reloc.addend)
            ELSE Err
    IN  IF ~addend.ok THEN Err
        ELSE Ok(Some(ObjReloc(reloc_kind.val, target_symbol, addend.val)))

\* to_obj_reloc with a relocation against a stripped symbol skipped like an
\* absolute-target one (a plausible slip)
ToObjRelocSkipStripped(image, indexes, section_data, address, reloc) ==
    LET reloc_kind == ToObjRelocKind(reloc.kind) IN
    IF ~reloc_kind.ok THEN Err
    ELSE IF reloc.target.t = "Absolute" THEN Ok(None)
    ELSE IF reloc.target.t # "Symbol" THEN Err
    ELSE IF reloc.target.idx + 1 > Len(image.symbols) THEN Err
    ELSE IF indexes[reloc.target.idx + 1] = None THEN Ok(None)
    ELSE
    LET symbol == image.symbols[reloc.target.idx + 1]
        target_symbol == Unwrap(indexes[reloc.target.idx + 1])
        addend ==
            IF symbol.kind \in {"Text", "Data", "Unknown", "Label"} THEN Ok(reloc.addend)
            ELSE IF symbol.kind = "Section"
            THEN LET a == IF reloc.implicit
                          THEN IF reloc_kind.val = "Absolute"
                               THEN ImplicitAddend(section_data, address)
                               ELSE Err
                          ELSE Ok(reloc.addend)
                 IN  IF ~a.ok THEN Err
                     ELSE IF Negative(a.val) THEN Err
                     ELSE a
            ELSE Err
    IN  IF ~addend.ok THEN Err
        ELSE Ok(Some(ObjReloc(reloc_kind.val, target_symbol, addend.val)))

\* to_obj_reloc; Ok(None) is a skipped relocation
ToObjReloc(image, indexes, section_data, address, reloc) ==
    LET reloc_kind == ToObjRelocKind(reloc.kind) IN
    IF ~reloc_kind.ok THEN Err
    ELSE IF reloc.target.t = "Absolute" THEN Ok(None)
    ELSE IF reloc.target.t # "Symbol" THEN Err
    ELSE IF reloc.target.idx + 1 > Len(image.symbols) THEN Err
    ELSE IF indexes[reloc.target.idx + 1] = None THEN Err
    ELSE
    LET symbol == image.symbols[reloc.target.idx + 1]
        target_symbol == Unwrap(indexes[reloc.target.idx + 1])
        addend ==
            IF symbol.kind \in {"Text", "Data", "Unknown", "Label"} THEN Ok(reloc.addend)
            ELSE IF symbol.kind = "Section"
            THEN LET a == IF reloc.implicit
                          THEN IF reloc_kind.val = "Absolute"
                               THEN ImplicitAddend(section_data, address)
                               ELSE Err
                          ELSE Ok(reloc.addend)
                 IN  IF ~a.ok THEN Err
                     ELSE IF Negative(a.val) THEN Err
                     ELSE a
            ELSE Err
    IN  IF ~addend.ok THEN Err
        ELSE Ok(Some(ObjReloc(reloc_kind.val, target_symbol, addend.val)))

\* ObjRelocations::insert: offsets are unique within a section
RelocationsInsert(map, address, reloc) ==
    IF address \in DOMAIN map THEN Err ELSE Ok(map @@ (address :> reloc))

\* process_elf: "Generate relocations" for one kept section; the section with
\* its relocations, or Err
RECURSIVE ReadRelocations(_, _, _, _)
ReadRelocations(image, indexes, out_section, relocs) ==
    IF relocs = <<>> THEN Ok(out_section)
    ELSE LET r == ToObjReloc(image, indexes, out_section.data, Head(relocs).r_offset,
                             Head(relocs))
         IN  IF ~r.ok THEN Err
             ELSE IF r.val = None
                  THEN ReadRelocations(image, indexes, out_section, Tail(relocs))
                  ELSE LET m == RelocationsInsert(out_section.relocations,
                                                  Head(relocs).r_offset, Unwrap(r.val))
                       IN  IF ~m.ok THEN Err
                           ELSE ReadRelocations(image, indexes,
                                    [out_section EXCEPT !.relocations = m.val], Tail(relocs))

\* process_elf: one iteration of the loop over obj_file.sections() that
\* generates relocations; the sections, or Err
ReadSectionRelocations(image, indexes, sections, section_idx) ==
    LET idx == SectionsOf(image).section_indexes[section_idx] IN
    IF idx = None THEN Ok(sections)
    ELSE LET r == ReadRelocations(image, indexes, sections[Unwrap(idx)],
                                  image.sections[section_idx].relocations)
         IN  IF ~r.ok THEN Err ELSE Ok([sections EXCEPT ![Unwrap(idx)] = r.val])

\* ObjSection::contains
SectionContains(section, address) ==
    address >= section.address /\ address < section.address + section.size

\* process_elf: the inner loop over one unit's entries, leaving the loop at
\* the first entry found in no section (a plausible slip: break for continue)
RECURSIVE PushSplitsStopAtMiss(_, _, _)
PushSplitsStopAtMiss(sections, file_name, entries) ==
    IF entries = <<>> THEN sections
    ELSE LET address == Head(entries)[1]
             found == {i \in 1..Len(sections) : SectionContains(sections[i], address)}
         IN  IF found = {} THEN sections
             ELSE PushSplitsStopAtMiss(
                      [sections EXCEPT ![MinOf(found)].splits =
                          NestedPush(@, address, ObjSplit(file_name, 0))],
                      file_name, Tail(entries))

\* process_elf: "Create a map of address -> file splits", the inner loop over
\* one unit's entries
RECURSIVE PushSplits(_, _, _)
PushSplits(sections, file_name, entries) ==
    IF entries = <<>> THEN sections
    ELSE LET address == Head(entries)[1]
             found == {i \in 1..Len(sections) : SectionContains(sections[i], address)}
         IN  IF found = {} THEN PushSplits(sections, file_name, Tail(entries))
             ELSE PushSplits(
                      [sections EXCEPT ![MinOf(found)].splits =
                          NestedPush(@, address, ObjSplit(file_name, 0))],
                      file_name, Tail(entries))

\* process_elf: the loop over section_starts that creates the splits
RECURSIVE CreateSplits(_, _)
CreateSplits(sections, starts) ==
    IF starts = <<>> THEN sections
    ELSE CreateSplits(PushSplits(sections, Head(starts).name, Head(starts).entries),
                      Tail(starts))

\* process_elf: link order and splits, with the splits created for
\* relocatable objects as well (a plausible slip)
LinkObjectAlwaysSplits(image, st) ==
    [kind |-> image.kind,
     name |-> st.obj_name,
     sections |-> CreateSplits(SectionsOf(image).sections, st.section_starts),
     symbols |-> st.symbols,
     mw_comment |-> None,
     link_order |-> IF image.kind = "Executable" THEN Keys(st.section_starts) ELSE <<>>]

\* process_elf: link order and splits, then ObjInfo::new without relocations
LinkObject(image, st) ==
    [kind |-> image.kind,
     name |-> st.obj_name,
     sections |-> IF image.kind = "Executable"
                  THEN CreateSplits(SectionsOf(image).sections, st.section_starts)
                  ELSE SectionsOf(image).sections,
     symbols |-> st.symbols,
     mw_comment |-> None,
     link_order |-> IF image.kind = "Executable" THEN Keys(st.section_starts) ELSE <<>>]

\* process_elf: the symbol loop over the remaining symbols
RECURSIVE ScanAll(_, _, _)
ScanAll(st, image, rest) ==
    IF rest = <<>> \/ st.err THEN st
    ELSE ScanAll(ScanSymbol(st, image, Head(rest), SectionsOf(image).section_indexes),
                 image, Tail(rest))

\* process_elf: the relocation loop from input section section_idx on
RECURSIVE ReadAllRelocations(_, _, _, _)
ReadAllRelocations(image, indexes, sections, section_idx) ==
    IF section_idx > Len(image.sections) THEN Ok(sections)
    ELSE LET r == ReadSectionRelocations(image, indexes, sections, section_idx) IN
         IF ~r.ok THEN Err
         ELSE ReadAllRelocations(image, indexes, r.val, section_idx + 1)

\* process_elf
ProcessElf(image) ==
    LET st == ScanAll(ScanStart, image, image.symbols) IN
    IF st.err THEN Err
    ELSE LET o == LinkObject(image, st)
             r == ReadAllRelocations(image, st.symbol_indexes, o.sections, 1)
         IN  IF ~r.ok THEN Err ELSE Ok([o EXCEPT !.sections = r.val])


(***************************************************************************)
(* The written file as the `object` crate presents it when it is read      *)
(* back: the input image of process_elf for the bytes write_elf produced.  *)
(***************************************************************************)
\* object::read: Section::kind()
SectionKindOf(header) ==
    CASE header.sh_type = "SHT_PROGBITS" ->
            IF "SHF_ALLOC" \in header.sh_flags
            THEN IF "SHF_EXECINSTR" \in header.sh_flags THEN "Text"
                 ELSE IF "SHF_WRITE" \in header.sh_flags THEN "Data"
                 ELSE "ReadOnlyData"
            ELSE "Other"
      [] header.sh_type = "SHT_NOBITS" -> "UninitializedData"
      [] OTHER -> "Metadata"

\* object::read: Symbol::kind(), index the position in the table (0 first)
SymbolKindOf(sym, index) ==
    CASE sym.st_type = "STT_NOTYPE" -> IF index = 0 THEN "Null" ELSE "Unknown"
      [] sym.st_type = "STT_OBJECT" -> "Data"
      [] sym.st_type = "STT_FUNC" -> "Text"
      [] sym.st_type = "STT_SECTION" -> "Section"
      [] sym.st_type = "STT_FILE" -> "File"

\* object::read: Symbol::section()
SymbolSectionOf(sym) ==
    IF sym.section # None THEN InSection(Unwrap(sym.section))
    ELSE CASE sym.st_shndx = "SHN_ABS" ->
                 IF sym.st_type = "STT_FILE" THEN [t |-> "None", idx |-> 0] ELSE Absolute
           [] sym.st_shndx = "SHN_COMMON" -> [t |-> "Common", idx |-> 0]
           [] OTHER -> Undefined

\* object::read: one entry of the symbol table
ElfSymOf(sym, index) ==
    [kind |-> SymbolKindOf(sym, index),
     name |-> IF sym.name = None THEN "" ELSE Unwrap(sym.name),
     address |-> sym.st_value, size |-> sym.st_size,
     section |-> SymbolSectionOf(sym),
     bind |-> CASE sym.st_bind = "STB_LOCAL" -> "Local"
                [] sym.st_bind = "STB_WEAK" -> "Weak"
                [] sym.st_bind = "STB_GLOBAL" -> "Global",
     vis |-> IF sym.st_other = "STV_HIDDEN" THEN "Hidden" ELSE "Default"]

\* object::read: one record of a relocation section with explicit addends
ElfRelocOf(record) ==
    ElfReloc(record.r_offset,
             IF record.r_type = "R_PPC_ADDR32" THEN "Absolute" ELSE record.r_type,
             IF record.r_sym = 0 THEN TargetAbsolute ELSE TargetSymbol(record.r_sym),
             record.r_addend, FALSE)

\* the bodies of the regions `region` written for section i, concatenated
RECURSIVE RegionBodies(_, _, _)
RegionBodies(out, region, i) ==
    IF out = <<>> THEN <<>>
    ELSE (IF Head(out).region = region /\ Head(out).section = i
          THEN Head(out).body ELSE <<>>) \o RegionBodies(Tail(out), region, i)

\* the body of the one region `region` that is not tied to a section
RegionBody(out, region) == RegionBodies(out, region, 0)

\* object::read::File::parse of the written regions `out`
ImageOf(out) ==
    LET headers == RegionBody(out, "section_headers")
        symtab == RegionBody(out, "symtab")
    IN  [kind |-> IF RegionBody(out, "file_header") = <<"ET_EXEC">>
                  THEN "Executable" ELSE "Relocatable",
         sections |->
             [i \in 1..(Len(headers) - 1) |->
                 [name |-> headers[i + 1].name,
                  kind |-> SectionKindOf(headers[i + 1]),
                  address |-> headers[i + 1].sh_addr,
                  size |-> headers[i + 1].sh_size,
                  data |-> RegionBodies(out, "section_data", i),
                  align |-> headers[i + 1].sh_addralign,
                  relocations |->
                      LET records == RegionBodies(out, "rela", i) IN
                      [j \in 1..Len(records) |-> ElfRelocOf(records[j])]]],
         symbols |-> [j \in 1..Len(symtab) |-> ElfSymOf(symtab[j], j - 1)],
         bytes |-> out]


(***************************************************************************)
(* write_elf as a state machine: the symbol pass one symbol at a time, the *)
(* reserve phase, then the write phase one region at a time.               *)
(***************************************************************************)
MaxWriteSyms == 2

WriteSymbolPool ==
    {ObjSymbol("f", "Function", Some(1), {"Local"}),
     ObjSymbol("g", "Function", Some(1), {"Global"}),
     ObjSymbol("w", "Object", Some(1), {"Global", "Weak"}),
     ObjSymbol("lw", "Object", Some(1), {"Local", "Weak"}),
     ObjSymbol(".text", "Section", Some(1), {"Local"}),
     ObjSymbol("ext", "Unknown", None, {"Global", "Hidden"})}

SeqsUpTo(S, n) == UNION {[1..k -> S] : k \in 0..n}

WriteSection(name, kind, address, size, data, relocations) ==
    [name |-> name, kind |-> kind, address |-> address, size |-> size, data |-> data,
     align |-> 4, elf_index |-> 0, relocations |-> relocations, splits |-> EmptyMap]

\* The section lists written: none, a Code section, a Code and a Bss section
\* whose data is absent, a Code section whose size is not its data length, and
\* an empty Code section before a Code section.
WriteSectionLists(address, relocations) ==
    {<<>>,
     <<WriteSection(".text", "Code", address, 4, <<72, 0, 0, 1>>, relocations)>>,
     <<WriteSection(".text", "Code", address, 4, <<72, 0, 0, 1>>, relocations),
       WriteSection(".bss", "Bss", address + 4, 4, <<>>, EmptyMap)>>,
     <<WriteSection(".bss", "Bss", address + 4, 4, <<>>, EmptyMap),
       WriteSection(".text", "Code", address, 8, <<72, 0, 0, 1>>, relocations)>>,
     <<WriteSection(".init", "Code", address, 0, <<>>, EmptyMap),
       WriteSection(".text", "Code", address, 4, <<72, 0, 0, 1>>, relocations)>>}

WriteObjs ==
    {[kind |-> k, name |-> n, sections |-> secs, symbols |-> syms, mw_comment |-> c,
      link_order |-> <<>>] :
        k \in {"Executable", "Relocatable"}, n \in {"", "src/a.c"},
        c \in {None, Some("header")},
        syms \in SeqsUpTo(WriteSymbolPool, MaxWriteSyms),
        secs \in WriteSectionLists(0, EmptyMap)}
    \cup
    {[kind |-> k, name |-> "a.c", sections |-> secs, symbols |-> syms, mw_comment |-> c,
      link_order |-> <<>>] :
        k \in {"Executable", "Relocatable"}, c \in {None, Some("header")},
        syms \in {<<s>> : s \in WriteSymbolPool},
        secs \in WriteSectionLists(0, (0 :> ObjReloc("PpcRel24", 1, I64(0))))}

WriteFrame ==
    [out_symbols |-> out_symbols, symbol_map |-> symbol_map, num_local |-> num_local,
     symtab_num |-> symtab_num, section_symbol_offset |-> section_symbol_offset,
     comment_data |-> comment_data, err |-> FALSE]

\* The next position of write_elf's symbol pass after `state`.
AfterSymbols(o) == IF Len(o.symbols) > 0 THEN "symbols" ELSE "reserve"
AfterFileSymbol(o) ==
    IF o.kind = "Relocatable" /\ Len(o.sections) > 0 THEN "section_symbols"
    ELSE AfterSymbols(o)

SetFrame(w) ==
    /\ out_symbols' = w.out_symbols
    /\ symbol_map' = w.symbol_map
    /\ num_local' = w.num_local
    /\ symtab_num' = w.symtab_num
    /\ section_symbol_offset' = w.section_symbol_offset
    /\ comment_data' = w.comment_data

\* write_elf up to "Add file symbol"
InitWrite ==
    /\ obj \in WriteObjs
    /\ write_state = "file_symbol"
    /\ cursor = 1
    /\ out_symbols = WriterStart(obj).out_symbols
    /\ symbol_map = WriterStart(obj).symbol_map
    /\ num_local = WriterStart(obj).num_local
    /\ symtab_num = WriterStart(obj).symtab_num
    /\ section_symbol_offset = WriterStart(obj).section_symbol_offset
    /\ comment_data = WriterStart(obj).comment_data
    /\ out_data = <<>>
    /\ SplitsIdle
    /\ ScanIdle

StepFileSymbol ==
    /\ write_state = "file_symbol"
    /\ SetFrame(AddFileSymbol(WriteFrame, obj))
    /\ write_state' = AfterFileSymbol(obj)
    /\ cursor' = 1
    /\ UNCHANGED <<obj, out_data, splitVars, scanVars>>

StepSectionSymbol ==
    /\ write_state = "section_symbols"
    /\ SetFrame(AddSectionSymbol(WriteFrame, obj, cursor))
    /\ IF cursor < Len(obj.sections)
       THEN cursor' = cursor + 1 /\ write_state' = write_state
       ELSE cursor' = 1 /\ write_state' = AfterSymbols(obj)
    /\ UNCHANGED <<obj, out_data, splitVars, scanVars>>

StepSymbol ==
    /\ write_state = "symbols"
    /\ LET w == AddSymbol(WriteFrame, obj, SymbolOrder(obj)[cursor]) IN
       /\ SetFrame(w)
       /\ IF w.err THEN write_state' = "failed" /\ cursor' = cursor
          ELSE IF cursor < Len(obj.symbols)
               THEN cursor' = cursor + 1 /\ write_state' = write_state
               ELSE cursor' = 1 /\ write_state' = "reserve"
    /\ UNCHANGED <<obj, out_data, splitVars, scanVars>>

\* write_elf: the reserve phase
StepReserve ==
    /\ write_state = "reserve"
    /\ write_state' = IF SizesOk(obj) THEN WriteRegions[1] ELSE "failed"
    /\ cursor' = 1
    /\ UNCHANGED <<obj, out_symbols, symbol_map, num_local, symtab_num,
                   section_symbol_offset, comment_data, out_data, splitVars, scanVars>>

\* write_elf: one region of the write phase
StepWrite(region) ==
    /\ write_state = region
    /\ cursor <= Len(WriteRegions) /\ WriteRegions[cursor] = region
    /\ LET r == EmitRegion(obj, WriteFrame, region) IN
       IF ~r.ok
       THEN write_state' = "failed" /\ UNCHANGED <<cursor, out_data>>
       ELSE IF ~CheckpointsOk(obj, WriteFrame, out_data \o r.val)
       THEN write_state' = "failed" /\ UNCHANGED <<cursor, out_data>>
       ELSE /\ out_data' = out_data \o r.val
            /\ cursor' = cursor + 1
            /\ write_state' = IF cursor < Len(WriteRegions)
                              THEN WriteRegions[cursor + 1] ELSE "done"
    /\ UNCHANGED <<obj, out_symbols, symbol_map, num_local, symtab_num,
                   section_symbol_offset, comment_data, splitVars, scanVars>>

NextWrite ==
    \/ StepFileSymbol
    \/ StepSectionSymbol
    \/ StepSymbol
    \/ StepReserve
    \/ \E i \in 1..Len(WriteRegions) : StepWrite(WriteRegions[i])

SpecWrite == InitWrite /\ [][NextWrite]_vars


(***************************************************************************)
(* Claims about write_elf.                                                 *)
(***************************************************************************)
HasEmitted(region) == \E i \in 1..Len(out_data) : out_data[i].region = region
Emitted(region) ==
    out_data[CHOOSE i \in 1..Len(out_data) : out_data[i].region = region].body

\* the sh_info field of the symbol-table section header that was written
WrittenNumLocal ==
    LET headers == Emitted("section_headers") IN
    headers[CHOOSE i \in 1..Len(headers) : headers[i].sh_type = "SHT_SYMTAB"].sh_info

LocalEntries(tab) == {i \in 1..Len(tab) : tab[i].st_bind = "STB_LOCAL"}

\* C5: for every object write_elf accepts, the number of local symbols
\* recorded in the symbol-table section header equals the count of local
\* symbols written to the symbol table, so every entry below that boundary is
\* local and every entry at or above it is not.  (Entry i of the table is
\* tab[i + 1].)
C5_NumLocalIsLocalCount ==
    write_state = "done" =>
        LET tab == Emitted("symtab") IN
        /\ WrittenNumLocal = Cardinality(LocalEntries(tab))
        /\ \A i \in 1..Len(tab) : (i <= WrittenNumLocal) <=> (i \in LocalEntries(tab))


NonBssMismatch ==
    \E i \in 1..Len(obj.sections) :
        /\ obj.sections[i].kind # "Bss"
        /\ obj.sections[i].size # Len(obj.sections[i].data)

\* C8: when a non-Bss section's declared size differs from the length of its
\* data, write_elf never emits a region (not even the file header) and its
\* reserve phase fails; a Bss section whose size differs from its (absent)
\* data does not make the reserve phase fail.
C8_SizeMismatchFailsInReserve ==
    /\ [](NonBssMismatch =>
            /\ out_data = <<>>
            /\ write_state \in {"file_symbol", "section_symbols", "symbols", "reserve",
                                "failed"})
    /\ [][write_state = "reserve" =>
            write_state' = IF NonBssMismatch THEN "failed" ELSE "file_header"]_vars

\* C8 witness: a write that failed with nothing emitted, for an object with a
\* Code section of the wrong size listed after a Bss section (whose size also
\* differs from its data length).
C8_Witness ==
    /\ write_state = "failed"
    /\ out_data = <<>>
    /\ NonBssMismatch
    /\ \E i \in 1..Len(obj.sections) :
          obj.sections[i].kind = "Bss" /\ obj.sections[i].size # Len(obj.sections[i].data)


(***************************************************************************)
(* The section data step of write_elf on relocatable objects with one      *)
(* relocated instruction word: the object is any of MaskObjs, and the      *)
(* write has reached the section data.                                     *)
(***************************************************************************)
MaskBytes == {0, 85, 170, 255}
MaskWords == {<<a, b, c, d>> : a \in MaskBytes, b \in MaskBytes, c \in MaskBytes, d \in MaskBytes}
OtherWord == <<18, 52, 86, 120>>

MaskObjs ==
    {[kind |-> "Relocatable", name |-> "",
      sections |-> <<WriteSection(".text", "Code", 0, 8,
                         IF at = 0 THEN word \o OtherWord ELSE OtherWord \o word,
                         (at :> ObjReloc(k, 1, I64(0))))>>,
      symbols |-> <<ObjSymbol("g", "Function", Some(1), {"Global"})>>,
      mw_comment |-> None, link_order |-> <<>>] :
        word \in MaskWords, k \in RelocKinds, at \in {0, 4}}

InitMask ==
    /\ obj \in MaskObjs
    /\ write_state = "section_data"
    /\ cursor = 3
    /\ out_symbols = SymbolPass(obj).out_symbols
    /\ symbol_map = SymbolPass(obj).symbol_map
    /\ num_local = SymbolPass(obj).num_local
    /\ symtab_num = SymbolPass(obj).symtab_num
    /\ section_symbol_offset = SymbolPass(obj).section_symbol_offset
    /\ comment_data = SymbolPass(obj).comment_data
    /\ out_data = EmitAll(obj, SymbolPass(obj), <<"file_header", "program_headers">>, <<>>).val
    /\ SplitsIdle
    /\ ScanIdle

WriteSectionData == StepWrite("section_data")

NextMask == WriteSectionData

SpecMask == InitMask /\ [][NextMask]_vars

\* bit i (0 the least significant) of the word held in 4 big-endian bytes
BitOf(bytes, i) ==
    LET b == bytes[4 - (i \div 8)]
        k == i % 8
    IN  (b \div (2 ^ k)) % 2

\* the bit positions of each relocation kind's field
FieldBits(kind) ==
    CASE kind = "Absolute" -> 0..31
      [] kind \in {"PpcAddr16Hi", "PpcAddr16Ha", "PpcAddr16Lo"} -> 0..15
      [] kind = "PpcRel24" -> 2..25
      [] kind = "PpcRel14" -> 2..15
      [] kind = "PpcEmbSda21" -> 0..20

\* C7: for every relocation kind and instruction word, the word emitted at
\* the relocated site of a relocatable object's section data has every bit of
\* that kind's field clear and every other bit equal to the input's.
C7_MaskClearsExactlyField ==
    (HasEmitted("section_data") /\ obj \in MaskObjs) =>
        LET section == obj.sections[1]
            at == CHOOSE a \in DOMAIN section.relocations : TRUE
            kind == section.relocations[at].kind
            input == SubSeq(section.data, at + 1, at + 4)
            output == SubSeq(Emitted("section_data"), at + 1, at + 4)
        IN  /\ Len(Emitted("section_data")) = Len(section.data)
            /\ \A i \in 0..31 :
                  BitOf(output, i) = IF i \in FieldBits(kind) THEN 0 ELSE BitOf(input, i)

\* C7 witness: a Rel24 site holding 0xFFFFFFFF was emitted as 0xFC000003.
C7_Witness ==
    /\ HasEmitted("section_data")
    /\ obj \in MaskObjs
    /\ 4 \in DOMAIN obj.sections[1].relocations
    /\ obj.sections[1].relocations[4].kind = "PpcRel24"
    /\ SubSeq(obj.sections[1].data, 5, 8) = <<255, 255, 255, 255>>
    /\ Emitted("section_data") = OtherWord \o <<252, 0, 0, 3>>


(***************************************************************************)
(* The relocation loop of process_elf as a state machine: the input is any *)
(* of RelocImages, the symbol loop is over, and each step reads the        *)
(* relocations of the next section of the input.                           *)
(***************************************************************************)
RelocSiteWords == {<<0, 0, 0, 8>>, <<255, 255, 255, 252>>, <<128, 0, 0, 0>>}

RelocSymbols ==
    <<NullSym,
      ElfSym("Section", "", 0, InSection(1), "Local"),
      ElfSym("Data", "d", 0, InSection(2), "Global"),
      ElfSym("Section", "", 0, InSection(3), "Local"),
      ElfSym("File", "a.c", 0, [t |-> "None", idx |-> 0], "Local")>>

RelocSections(site, relocs) ==
    <<[name |-> ".text", kind |-> "Text", address |-> 0, size |-> 8,
       data |-> <<96, 0, 0, 0>> \o site, align |-> 4, relocations |-> relocs],
      [name |-> ".data", kind |-> "Data", address |-> 0, size |-> 4,
       data |-> <<0, 0, 0, 1>>, align |-> 4, relocations |-> <<>>],
      [name |-> ".debug", kind |-> "Other", address |-> 0, size |-> 4,
       data |-> <<0, 0, 0, 0>>, align |-> 1, relocations |-> <<>>]>>

\* targets: the null entry, the SECTION symbol of .text, the Data symbol, the
\* SECTION symbol of the dropped .debug, the FILE symbol, and no symbol
RelocTargets ==
    {TargetSymbol(0), TargetSymbol(1), TargetSymbol(2), TargetSymbol(3), TargetSymbol(4),
     TargetAbsolute}

RelocInputs ==
    {ElfReloc(at, k, t, I64(0), TRUE) :
        at \in {4, 6}, k \in {"Absolute", "R_PPC_ADDR16_HA", "R_PPC_UADDR32"},
        t \in RelocTargets}
    \cup
    {ElfReloc(at, k, t, I64(n), FALSE) :
        at \in {4, 6}, k \in {"Absolute", "R_PPC_ADDR16_HA", "R_PPC_UADDR32"},
        t \in RelocTargets, n \in {-4, 0, 4}}

RelocImages ==
    {[kind |-> "Relocatable", sections |-> RelocSections(site, <<r>>),
      symbols |-> RelocSymbols] : site \in RelocSiteWords, r \in RelocInputs}
    \cup
    {[kind |-> "Relocatable", sections |-> RelocSections(<<0, 0, 0, 8>>, <<r, r>>),
      symbols |-> RelocSymbols] :
        r \in {ElfReloc(4, "Absolute", TargetSymbol(2), I64(0), FALSE),
               ElfReloc(4, "Absolute", TargetAbsolute, I64(0), FALSE)}}
    \cup
    {[kind |-> "Relocatable",
      sections |-> RelocSections(<<0, 0, 0, 8>>,
                      <<ElfReloc(4, "R_PPC_REL24", TargetAbsolute, I64(0), FALSE), r>>),
      symbols |-> RelocSymbols] :
        r \in {ElfReloc(0, "Absolute", TargetSymbol(2), I64(4), FALSE),
               ElfReloc(0, "Absolute", TargetSymbol(3), I64(4), FALSE)}}

\* process_elf after the symbol loop and the link order
InitReloc ==
    /\ elf \in RelocImages
    /\ LET st == ScanAll(ScanStart, elf, elf.symbols) IN
       /\ boundary_state = st.boundary_state
       /\ section_starts = st.section_starts
       /\ name_to_index = st.name_to_index
       /\ symbol_indexes = st.symbol_indexes
       /\ symbols = st.symbols
       /\ obj_name = st.obj_name
       /\ obj = LinkObject(elf, st)
    /\ read_state = "relocations"
    /\ cursor = 1
    /\ write_state = "idle"
    /\ out_symbols = <<>>
    /\ symbol_map = <<>>
    /\ num_local = 0
    /\ symtab_num = 0
    /\ section_symbol_offset = 0
    /\ comment_data = None
    /\ out_data = <<>>
    /\ SplitsIdle

\* process_elf: one iteration of the loop over obj_file.sections() that
\* generates relocations
ReadSectionRelocs ==
    /\ read_state = "relocations"
    /\ cursor <= Len(elf.sections)
    /\ LET r == ReadSectionRelocations(elf, symbol_indexes, obj.sections, cursor) IN
       IF ~r.ok
       THEN read_state' = "failed" /\ UNCHANGED <<obj, cursor>>
       ELSE /\ obj' = [obj EXCEPT !.sections = r.val]
            /\ cursor' = cursor + 1
            /\ read_state' = IF cursor = Len(elf.sections) THEN "done" ELSE "relocations"
    /\ UNCHANGED <<elf, boundary_state, section_starts, name_to_index, symbol_indexes,
                   symbols, obj_name, write_state, out_symbols, symbol_map, num_local,
                   symtab_num, section_symbol_offset, comment_data, out_data, splitVars>>

NextReloc == ReadSectionRelocs

SpecReloc == InitReloc /\ [][NextReloc]_vars

\* the relocations of the input's first section, and that section as read
InputRelocs == elf.sections[1].relocations
ReadSection == obj.sections[1]

\* C6: when a relocation targets a section-kind symbol and has an implicit
\* addend, the 4 big-endian bytes at the relocation site are decoded as the
\* addend, and if the decoded value is negative (its high bit is set) the read
\* fails.
C6_NegativeImplicitAddendFails ==
    (/\ elf \in RelocImages
     /\ read_state \in {"done", "failed"}
     /\ Len(InputRelocs) = 1) =>
        LET reloc == InputRelocs[1]
            site == SubSeq(elf.sections[1].data, reloc.r_offset + 1, reloc.r_offset + 4)
        IN  (/\ reloc.target.t = "Symbol"
             /\ elf.symbols[reloc.target.idx + 1].kind = "Section"
             /\ symbol_indexes[reloc.target.idx + 1] # None
             /\ reloc.implicit
             /\ reloc.kind = "Absolute"
             /\ reloc.r_offset + 4 <= Len(elf.sections[1].data)) =>
                IF site[1] >= 128
                THEN read_state = "failed"
                ELSE /\ read_state = "done"
                     /\ ToBeBytes(ReadSection.relocations[reloc.r_offset].addend) = site


(***************************************************************************)
(* Reading an image and writing the object read: process_elf, then         *)
(* write_elf on its result.  The images are the files write_elf produces   *)
(* for the relocatable objects of RoundObjs, and the images of             *)
(* UnitImages: one FILE symbol "a.c", two SECTION symbols in the Code      *)
(* section, one Absolute relocation against a Data symbol.                 *)
(***************************************************************************)
RoundData == <<56, 99, 18, 52, 60, 96, 171, 205>>

RoundObjs ==
    {[kind |-> "Relocatable", name |-> n,
      sections |-> <<WriteSection(".text", "Code", 0, 8, RoundData,
                                  (at :> ObjReloc(k, Len(syms), I64(a))))>>,
      symbols |-> syms, mw_comment |-> None, link_order |-> <<>>] :
        n \in {"", "a.c"}, k \in RelocKinds, at \in {0, 4}, a \in {0, 4},
        syms \in {<<ObjSymbol("g", "Function", Some(1), {"Global"})>>,
                  <<ObjSymbol("f", "Function", Some(1), {"Local"}),
                    ObjSymbol("ext", "Unknown", None, {"Global"})>>}}

\* the canonical relocatable images: what write_elf produces
RoundImages == {ImageOf(WriteElf(o).val) : o \in {x \in RoundObjs : WriteElf(x).ok}}

UnitSymbols ==
    {<<NullSym,
       ElfSym("File", "a.c", 0, [t |-> "None", idx |-> 0], "Local"),
       ElfSym("Section", "", 0, InSection(1), "Local"),
       ElfSym("Section", "", 4, InSection(1), "Local"),
       ElfSym("Data", "d", 0, InSection(2), "Global")>>,
     <<NullSym,
       ElfSym("Section", "", 0, InSection(1), "Local"),
       ElfSym("Section", "", 4, InSection(1), "Local"),
       ElfSym("File", "a.c", 0, [t |-> "None", idx |-> 0], "Local"),
       ElfSym("Data", "d", 0, InSection(2), "Global")>>}

UnitImages ==
    {[kind |-> k,
      sections |->
          <<[name |-> ".text", kind |-> "Text", address |-> 0, size |-> 8,
             data |-> RoundData, align |-> 4,
             relocations |-> <<ElfReloc(at, "Absolute", TargetSymbol(4), I64(a), FALSE)>>],
            [name |-> ".data", kind |-> "Data",
             address |-> IF k = "Executable" THEN 8 ELSE 0, size |-> 4,
             data |-> <<0, 0, 0, 1>>, align |-> 4, relocations |-> <<>>]>>,
      symbols |-> syms, bytes |-> <<>>] :
        k \in {"Relocatable", "Executable"}, at \in {0, 4}, a \in {-4, 0, 8},
        syms \in UnitSymbols}

InitRound ==
    /\ elf \in RoundImages \cup UnitImages
    /\ boundary_state = ScanStart.boundary_state
    /\ section_starts = ScanStart.section_starts
    /\ name_to_index = ScanStart.name_to_index
    /\ symbol_indexes = ScanStart.symbol_indexes
    /\ symbols = ScanStart.symbols
    /\ obj_name = ScanStart.obj_name
    /\ read_state = "start"
    /\ SplitsIdle
    /\ WriteIdle

\* process_elf(elf)
Read ==
    /\ read_state = "start"
    /\ LET st == ScanAll(ScanStart, elf, elf.symbols)
           r == ProcessElf(elf)
       IN  /\ boundary_state' = st.boundary_state
           /\ section_starts' = st.section_starts
           /\ name_to_index' = st.name_to_index
           /\ symbol_indexes' = st.symbol_indexes
           /\ symbols' = st.symbols
           /\ obj_name' = st.obj_name
           /\ read_state' = IF r.ok THEN "done" ELSE "failed"
           /\ obj' = IF r.ok THEN r.val ELSE obj
    /\ UNCHANGED <<elf, write_state, cursor, out_symbols, symbol_map, num_local,
                   symtab_num, section_symbol_offset, comment_data, out_data, splitVars>>

\* write_elf(obj) on the object read
Write ==
    /\ read_state = "done"
    /\ write_state = "idle"
    /\ LET r == WriteElf(obj) IN
       /\ SetFrame(SymbolPass(obj))
       /\ write_state' = IF r.ok THEN "done" ELSE "failed"
       /\ out_data' = IF r.ok THEN r.val ELSE out_data
    /\ UNCHANGED <<obj, cursor, splitVars, scanVars>>

NextRound == Read \/ Write

SpecRound == InitRound /\ [][NextRound]_vars

\* C1: for a canonical relocatable image, reading it and writing the object
\* read succeeds and yields output identical to the input.
C1_RoundTripIdentity ==
    elf \in RoundImages =>
        /\ read_state # "failed"
        /\ write_state # "failed"
        /\ write_state = "done" => out_data = elf.bytes


\* the relocatable images with one FILE symbol "a.c", two SECTION symbols in
\* the Code section and one Absolute relocation against the Data symbol
UnitCase == elf \in UnitImages /\ elf.kind = "Relocatable"

UnitReloc == elf.sections[1].relocations[1]
WrittenCode == RegionBodies(out_data, "section_data", 1)
RelocatedWordZero ==
    SubSeq(WrittenCode, UnitReloc.r_offset + 1, UnitReloc.r_offset + 4) = <<0, 0, 0, 0>>

\* C4 as stated: reading such an image yields two splits in the Code
\* section's split index and one relocation with a non-negative addend, and
\* writing the object read emits Code section data whose relocated word is
\* zero.
C4_TwoSplitsOneRelocZeroWord ==
    UnitCase =>
        /\ read_state # "failed"
        /\ read_state = "done" =>
              /\ SplitCount(obj.sections[1].splits) = 2
              /\ DOMAIN obj.sections[1].relocations = {UnitReloc.r_offset}
              /\ ~Negative(obj.sections[1].relocations[UnitReloc.r_offset].addend)
        /\ write_state # "failed"
        /\ write_state = "done" => RelocatedWordZero

\* C4 amended: reading such an image yields NO split in the Code section's
\* split index (the two boundaries are recorded for unit "a.c" in
\* section_starts, and splits are made from them for executables only), and
\* one Absolute relocation against the Data symbol whose addend is the
\* record's explicit addend; writing the object read emits the Code section
\* data unchanged but for the relocated word, which is zero.
C4_NoSplitsOneRelocZeroWord ==
    UnitCase =>
        /\ read_state # "failed"
        /\ read_state = "done" =>
              /\ Keys(section_starts) = <<"a.c">>
              /\ SubSeq(section_starts[1].entries, 1, 2) = <<<<0, ".text">>, <<4, ".text">>>>
              /\ obj.name = "a.c"
              /\ SplitCount(obj.sections[1].splits) = 0
              /\ DOMAIN obj.sections[1].relocations = {UnitReloc.r_offset}
              /\ obj.sections[1].relocations[UnitReloc.r_offset] =
                     ObjReloc("Absolute", Len(obj.symbols), UnitReloc.addend)
              /\ obj.symbols[Len(obj.symbols)].name = "d"
        /\ write_state # "failed"
        /\ write_state = "done" =>
              /\ RelocatedWordZero
              /\ \A i \in 1..Len(RoundData) :
                    i \notin (UnitReloc.r_offset + 1)..(UnitReloc.r_offset + 4) =>
                        WrittenCode[i] = RoundData[i]

\* C4 witness: such an image, with the FILE symbol first and a negative
\* addend in the record, has been read and the object written.
C4_Witness ==
    /\ UnitCase
    /\ elf.symbols[2].kind = "File"
    /\ Negative(UnitReloc.addend)
    /\ read_state = "done"
    /\ write_state = "done"
    /\ SplitCount(obj.sections[1].splits) = 0
    /\ Negative(obj.sections[1].relocations[UnitReloc.r_offset].addend)
    /\ RelocatedWordZero


\* C11: in every object a successful read returns, every relocation whose
\* target symbol is section-kind has a non-negative addend, whether the
\* input's addend was explicit or implicit.
C11_SectionRelocAddendNonNegative ==
    (elf \in RelocImages /\ read_state = "done") =>
        \A i \in 1..Len(obj.sections) :
            \A a \in DOMAIN obj.sections[i].relocations :
                LET reloc == obj.sections[i].relocations[a] IN
                obj.symbols[reloc.target_symbol].kind = "Section" => reloc.addend.hi >= 0

\* C11 witness: a read that succeeded with a relocation against the SECTION
\* symbol of .text whose implicit addend was decoded from the bytes
\* 00 00 00 08.
C11_Witness ==
    /\ elf \in RelocImages
    /\ read_state = "done"
    /\ Len(InputRelocs) = 1
    /\ InputRelocs[1].implicit
    /\ InputRelocs[1].target = TargetSymbol(1)
    /\ 4 \in DOMAIN ReadSection.relocations
    /\ obj.symbols[ReadSection.relocations[4].target_symbol].kind = "Section"
    /\ ReadSection.relocations[4].addend = I64(8)

MappedTypes ==
    {"Absolute", "R_PPC_ADDR16_LO", "R_PPC_ADDR16_HI", "R_PPC_ADDR16_HA", "R_PPC_REL24",
     "R_PPC_REL14", "R_PPC_EMB_SDA21"}

\* the input symbol is not in the output symbol table: the null entry, a
\* FILE symbol, or a symbol of a section that was dropped
DroppedSymbol(symbol) ==
    \/ symbol.kind \in {"Null", "File"}
    \/ /\ symbol.section.t = "Section"
       /\ \/ elf.sections[symbol.section.idx].size = 0
          \/ elf.sections[symbol.section.idx].kind \notin
                 {"Text", "Data", "ReadOnlyData", "UninitializedData"}

\* C12: a relocation with a mapped type and no target symbol is left out of
\* the object and the read goes on; a relocation with a mapped type whose
\* target symbol was dropped (null, FILE, or in a dropped section) makes the
\* read fail.
C12_AbsoluteSkippedStrippedFails ==
    (elf \in RelocImages /\ read_state \in {"done", "failed"}) =>
        /\ (\E j \in 1..Len(InputRelocs) :
               /\ InputRelocs[j].kind \in MappedTypes
               /\ InputRelocs[j].target.t = "Symbol"
               /\ DroppedSymbol(elf.symbols[InputRelocs[j].target.idx + 1])
               /\ \A k \in 1..(j - 1) : InputRelocs[k].target.t = "Absolute")
           => read_state = "failed"
        /\ (\A j \in 1..Len(InputRelocs) :
               InputRelocs[j].kind \in MappedTypes /\ InputRelocs[j].target.t = "Absolute")
           => (read_state = "done" /\ DOMAIN ReadSection.relocations = {})
        /\ read_state = "done" =>
               DOMAIN ReadSection.relocations =
                   {InputRelocs[j].r_offset : j \in {k \in 1..Len(InputRelocs) :
                                                        InputRelocs[k].target.t = "Symbol"}}

\* C12 witness: a read that succeeded after skipping an absolute-target
\* relocation and then keeping the relocation that followed it.
C12_Witness ==
    /\ elf \in RelocImages
    /\ read_state = "done"
    /\ Len(InputRelocs) = 2
    /\ InputRelocs[1].target = TargetAbsolute
    /\ InputRelocs[2].target = TargetSymbol(2)
    /\ DOMAIN ReadSection.relocations = {InputRelocs[2].r_offset}



(***************************************************************************)
(* Claims about the relocation records written (checked under SpecWrite).  *)
(***************************************************************************)
\* The "rela" regions written, and the model relocation record k of one stands for
RelaRegions == {i \in 1..Len(out_data) : out_data[i].region = "rela"}
RecordSource(region, k) ==
    LET section == obj.sections[region.section] IN
    [address |-> SortedSeq(DOMAIN section.relocations)[k],
     reloc |-> section.relocations[SortedSeq(DOMAIN section.relocations)[k]]]

\* Whether a written symbol-table entry is the one that stands for a model
\* symbol: the synthetic SECTION symbol of its section for a Section symbol of
\* a relocatable object, the entry written from the symbol itself otherwise.
Represents(entry, symbol) ==
    IF obj.kind = "Relocatable" /\ symbol.kind = "Section"
    THEN /\ entry.st_type = "STT_SECTION"
         /\ entry.name = None
         /\ entry.section = symbol.section
    ELSE /\ entry.name = Some(symbol.name)
         /\ entry.st_value = symbol.address
         /\ entry.st_bind = StBind(symbol)

\* C16: in every object file written, each relocation record's r_sym is the
\* symbol-table index of the entry that stands for the relocation's target;
\* for a Section symbol of a relocatable object that is the synthetic SECTION
\* symbol of its section, whether or not a FILE symbol was written.
C16_RSymIsTargetEntry ==
    write_state = "done" =>
        \A i \in RelaRegions :
            \A k \in 1..Len(out_data[i].body) :
                LET record == out_data[i].body[k]
                    tab == Emitted("symtab")
                    target == obj.symbols[RecordSource(out_data[i], k).reloc.target_symbol]
                IN  /\ record.r_sym + 1 \in 1..Len(tab)
                    /\ Represents(tab[record.r_sym + 1], target)


(***************************************************************************)
(* The symbol loop after a unit's placeholder boundary: the scan has read   *)
(* the null symbol, FILE a.c and one SECTION symbol, and goes on with       *)
(* ordinary symbols.                                                        *)
(***************************************************************************)
MaxPatchSyms == 2

PatchPrefixes ==
    {<<NullSym, ElfSym("File", "a.c", 0, Absolute, "Local"),
       ElfSym("Section", "", a, InSection(i), "Local")>> : a \in {0, 4}, i \in {1, 2}}

PatchImages ==
    {[image EXCEPT !.symbols = prefix] : image \in ScanImages, prefix \in PatchPrefixes}

InitPatch ==
    /\ elf \in PatchImages
    /\ LET st == ScanAll(ScanStart, elf, elf.symbols) IN
       /\ boundary_state = st.boundary_state
       /\ section_starts = st.section_starts
       /\ name_to_index = st.name_to_index
       /\ symbol_indexes = st.symbol_indexes
       /\ symbols = st.symbols
       /\ obj_name = st.obj_name
    /\ read_state = "scan"
    /\ SplitsIdle
    /\ WriteIdle

ScanOrdinary(symbol) == Len(elf.symbols) < 3 + MaxPatchSyms /\ Scan(symbol)

NextPatch == \E symbol \in ScanOtherSyms : ScanOrdinary(symbol)

SpecPatch == InitPatch /\ [][NextPatch]_vars

\* Position of the FILE symbol that made the current unit current, and whether
\* an ordinary symbol of the same section as `symbol` was scanned since
UnitStart ==
    MaxOf({j \in 1..Len(elf.symbols) :
              elf.symbols[j].kind = "File" /\ ~IsPchFileName(elf.symbols[j].name)})
SeenInUnit(symbol) ==
    \E j \in (UnitStart + 1)..Len(elf.symbols) :
        /\ elf.symbols[j].kind \notin {"File", "Section", "Null"}
        /\ elf.symbols[j].section = symbol.section

CurrentEntries(starts) == starts[KeyIndex(starts, boundary_state.file_name)].entries

\* C18: while a unit is current, the first ordinary symbol of a section whose
\* boundary entry holds the placeholder address 0 gives that entry its
\* address, and later ordinary symbols of the same section leave the unit's
\* boundary entries as they are, whatever the address of the first symbol.
C18_PlaceholderPatchedOnce ==
    [][\A symbol \in ScanOtherSyms :
          (/\ Scanned(symbol)
           /\ symbol.section.t = "Section"
           /\ boundary_state.tag = "LookForSections") =>
              LET name == elf.sections[symbol.section.idx].name
                  old == CurrentEntries(section_starts)
                  new == CurrentEntries(section_starts')
              IN  /\ (~SeenInUnit(symbol) /\ \E k \in 1..Len(old) : old[k] = <<0, name>>) =>
                        \E k \in 1..Len(old) :
                            /\ old[k] = <<0, name>>
                            /\ new = [old EXCEPT ![k] = <<symbol.address, name>>]
                  /\ SeenInUnit(symbol) => new = old]_vars


(***************************************************************************)
(* The section data and relocation records of write_elf as a state machine: *)
(* an object with one Code section of three words and one or two            *)
(* relocations of one kind, at offsets aligned or not, in different words   *)
(* or overlapping; one step writes the section data, the next the records.  *)
(***************************************************************************)
RelaOffsets == 0..4

RelaObjs ==
    {[kind |-> kind, name |-> "",
      sections |-> <<WriteSection(".text", "Code", 0, 12,
                                  OtherWord \o OtherWord \o OtherWord, relocs)>>,
      symbols |-> <<ObjSymbol("g", "Function", Some(1), {"Global"})>>,
      mw_comment |-> None, link_order |-> <<>>] :
        relocs \in {(a :> ObjReloc(k, 1, I64(0))) : a \in RelaOffsets, k \in RelocKinds}
                   \cup {(a :> ObjReloc(k, 1, I64(0))) @@ (b :> ObjReloc(k, 1, I64(0))) :
                            a \in 0..3, b \in {4, 8}, k \in RelocKinds},
        kind \in {"Relocatable", "Executable"}}

InitRela ==
    /\ obj \in RelaObjs
    /\ write_state = "section_data"
    /\ cursor = 3
    /\ out_symbols = SymbolPass(obj).out_symbols
    /\ symbol_map = SymbolPass(obj).symbol_map
    /\ num_local = SymbolPass(obj).num_local
    /\ symtab_num = SymbolPass(obj).symtab_num
    /\ section_symbol_offset = SymbolPass(obj).section_symbol_offset
    /\ comment_data = SymbolPass(obj).comment_data
    /\ out_data = EmitAll(obj, SymbolPass(obj), <<"file_header", "program_headers">>, <<>>).val
    /\ SplitsIdle
    /\ ScanIdle

WriteRelocations == StepWrite("relocations")

NextRela == WriteSectionData \/ WriteRelocations

SpecRela == InitRela /\ [][NextRela]_vars

Addr16Kinds == {"PpcAddr16Hi", "PpcAddr16Ha", "PpcAddr16Lo"}

\* n is a rounded down to a multiple of 4
RoundedDown(n, a) == n % 4 = 0 /\ n <= a /\ a < n + 4

\* C19: the offset written for a relocation at model offset a is a rounded
\* down to a multiple of 4, plus 2 for the three Addr16 kinds, for every a,
\* aligned or not, and every kind, Absolute included.
C19_OffsetRoundedEveryKind ==
    \A i \in RelaRegions : \A k \in 1..Len(out_data[i].body) :
        LET record == out_data[i].body[k]
            src == RecordSource(out_data[i], k)
        IN  IF src.reloc.kind \in Addr16Kinds
            THEN RoundedDown(record.r_offset - 2, src.address)
            ELSE RoundedDown(record.r_offset, src.address)

\* C19, amended: the offset written for a relocation at model offset a is a
\* rounded down to a multiple of 4 for Rel24, Rel14 and EmbSda21, that plus 2
\* for the three Addr16 kinds, and a itself, not rounded, for Absolute.
C19_OffsetRoundedButAbsolute ==
    \A i \in RelaRegions : \A k \in 1..Len(out_data[i].body) :
        LET record == out_data[i].body[k]
            src == RecordSource(out_data[i], k)
        IN  CASE src.reloc.kind \in Addr16Kinds ->
                    RoundedDown(record.r_offset - 2, src.address)
              [] src.reloc.kind = "Absolute" -> record.r_offset = src.address
              [] OTHER -> RoundedDown(record.r_offset, src.address)

\* C19 witness: the records of two Absolute relocations, at model offsets 1
\* and 8, were written with offsets 1 and 8.
C19_Witness ==
    /\ write_state = "symtab"
    /\ DOMAIN obj.sections[1].relocations = {1, 8}
    /\ obj.sections[1].relocations[1].kind = "Absolute"
    /\ \E i \in RelaRegions :
          out_data[i].body[1].r_offset = 1 /\ out_data[i].body[2].r_offset = 8

\* The reader's name for a written type code (Relocation::kind())
ReadKind(r_type) == IF r_type = "R_PPC_ADDR32" THEN "Absolute" ELSE r_type

\* C20: the type code written for a relocation is determined by its kind
\* alone: two relocations of the same kind receive the same type code,
\* whatever their offsets, and the reader's type-to-kind mapping accepts it
\* and gives the kind back.
C20_TypeCodeByKindAlone ==
    \A i \in RelaRegions :
        /\ \A k, m \in 1..Len(out_data[i].body) :
              RecordSource(out_data[i], k).reloc.kind = RecordSource(out_data[i], m).reloc.kind
                  => out_data[i].body[k].r_type = out_data[i].body[m].r_type
        /\ \A k \in 1..Len(out_data[i].body) :
              ToObjRelocKind(ReadKind(out_data[i].body[k].r_type)) =
                  Ok(RecordSource(out_data[i], k).reloc.kind)


\* The bytes of the words the written records of section i point into
\* (positions counted from 1)
RecordWords(i) ==
    UNION {LET word == out_data[r].body[k].r_offset - (out_data[r].body[k].r_offset % 4)
           IN  (word + 1)..(word + 4) :
              <<r, k>> \in {p \in RelaRegions \X (1..2) :
                               /\ out_data[p[1]].section = i
                               /\ p[2] <= Len(out_data[p[1]].body)}}

SectionDataRegionsOf == {i \in 1..Len(out_data) : out_data[i].region = "section_data"}

\* C21: for every relocation of a relocatable object, at an offset aligned to
\* 4 or not, the bytes the writer masks in the section data lie in the
\* instruction word the written record points into: every byte of the section
\* outside the words of its records is written as buffered.
C21_MaskedWordIsRecordWord ==
    (obj.kind = "Relocatable" /\ write_state = "symtab") =>
        \A d \in SectionDataRegionsOf :
            LET section == obj.sections[out_data[d].section] IN
            /\ Len(out_data[d].body) = Len(section.data)
            /\ \A j \in 1..Len(section.data) :
                  j \notin RecordWords(out_data[d].section) =>
                      out_data[d].body[j] = section.data[j]


\* The bytes (positions counted from 1) of the 4 bytes starting at each
\* relocation offset of a section
RelocationSites(section) ==
    UNION {(a + 1)..(a + 4) : a \in DOMAIN section.relocations}

\* C22: for every section whose relocation offsets satisfy offset + 4 <= data
\* length (offsets are unique, being the keys of a map), writing the section
\* data does not fail, and the data written for a relocatable object has the
\* length of the buffered data and equals it outside the 4 bytes starting at
\* each relocation offset; for an executable it is the buffered data.
C22_SectionDataFrame ==
    (\A i \in 1..Len(obj.sections) :
        \A a \in DOMAIN obj.sections[i].relocations : a + 4 <= Len(obj.sections[i].data))
    => /\ write_state # "failed"
       /\ \A d \in SectionDataRegionsOf :
             LET section == obj.sections[out_data[d].section] IN
             IF obj.kind = "Relocatable"
             THEN /\ Len(out_data[d].body) = Len(section.data)
                  /\ \A j \in 1..Len(section.data) :
                        j \notin RelocationSites(section) =>
                            out_data[d].body[j] = section.data[j]
             ELSE out_data[d].body = section.data


\* The regions written so far, and the regions reserved, as (region, section)
WrittenOrder == [i \in 1..Len(out_data) |-> <<out_data[i].region, out_data[i].section>>]
ReservedOrder ==
    LET layout == Reserved(obj, WriteFrame).layout IN
    [i \in 1..Len(layout) |-> <<layout[i].region, layout[i].section>>]

WritePhase == write_state \in {WriteRegions[i] : i \in 1..Len(WriteRegions)} \cup {"done"}

\* C24: the write phase emits the regions in the order the reserve phase
\* reserved them, and for every object whose sections other than Bss have
\* size = data length each region starts at the offset reserved for it, so
\* no checkpoint fails and the length written in the end is the length
\* reserved.
C24_WriteFollowsReserve ==
    /\ SizesOk(obj) => write_state # "failed"
    /\ WritePhase =>
          LET written == Written(obj, WriteFrame, out_data)
              reserved == Reserved(obj, WriteFrame)
          IN  /\ Len(out_data) <= Len(reserved.layout)
              /\ WrittenOrder = SubSeq(ReservedOrder, 1, Len(out_data))
              /\ \A i \in 1..Len(out_data) :
                    /\ written.layout[i].offset = reserved.layout[i].offset
                    /\ written.layout[i].size = reserved.layout[i].size
              /\ write_state = "done" =>
                    /\ Len(out_data) = Len(reserved.layout)
                    /\ written.len = reserved.len

\* C24 witness: an executable with an empty section, a FILE symbol and vendor
\* metadata was written to the end, the empty section's data at the aligned
\* offset reserved for it.
C24_Witness ==
    /\ write_state = "done"
    /\ obj.kind = "Executable"
    /\ obj.mw_comment # None
    /\ obj.name # ""
    /\ Len(obj.sections) = 2 /\ obj.sections[1].size = 0
    /\ \E i \in 1..Len(out_data) :
          /\ out_data[i].region = "section_data" /\ out_data[i].section = 1
          /\ Written(obj, WriteFrame, out_data).layout[i].offset = 128
    /\ \E i \in 1..Len(out_data) : out_data[i].region = "comment"


\* The model symbols the symbol loop reserves an entry for
Reserving(i) == ~(obj.kind = "Relocatable" /\ obj.symbols[i].kind = "Section")

\* The entries expected after the null entry: what each one stands for
ExpectedEntries ==
    (IF obj.name # "" THEN <<[of |-> "file", index |-> 0]>> ELSE <<>>)
    \o (IF obj.kind = "Relocatable"
        THEN [i \in 1..Len(obj.sections) |-> [of |-> "section", index |-> i]]
        ELSE <<>>)
    \o SelectSeq([i \in 1..Len(obj.symbols) |-> [of |-> "symbol", index |-> i]],
                 LAMBDA e : Reserving(e.index) /\ IsLocal(obj.symbols[e.index]))
    \o SelectSeq([i \in 1..Len(obj.symbols) |-> [of |-> "symbol", index |-> i]],
                 LAMBDA e : Reserving(e.index) /\ ~IsLocal(obj.symbols[e.index]))

\* The symbol-table entry `sym` at index `at` stands for `e`
StandsFor(sym, at, e) ==
    CASE e.of = "file" ->
            /\ sym.st_type = "STT_FILE" /\ sym.st_bind = "STB_LOCAL"
            /\ sym.st_shndx = "SHN_ABS" /\ sym.name = Some(Basename(obj.name))
      [] e.of = "section" ->
            /\ sym.st_type = "STT_SECTION" /\ sym.st_bind = "STB_LOCAL"
            /\ sym.name = None /\ sym.section = Some(e.index)
      [] e.of = "symbol" ->
            /\ symbol_map[e.index] = Some(at)
            /\ sym.name = Some(obj.symbols[e.index].name)
            /\ sym.st_type # "STT_FILE"
            /\ (sym.st_type = "STT_SECTION") = (obj.symbols[e.index].kind = "Section")

\* C25: the entries reserved so far are the first of the expected ones (the
\* FILE symbol iff the object is named, a SECTION symbol per section iff
\* relocatable, the local-flagged symbols, the other symbols; Section-kind
\* symbols of a relocatable object left out), and the symbol table written is
\* the null entry and then exactly the expected ones.
C25_SymbolTableOrder ==
    /\ Len(out_symbols) <= Len(ExpectedEntries)
    /\ \A k \in 1..Len(out_symbols) :
          /\ out_symbols[k].index = k
          /\ StandsFor(out_symbols[k].sym, k, ExpectedEntries[k])
    /\ HasEmitted("symtab") =>
          LET tab == Emitted("symtab") IN
          /\ Len(out_symbols) = Len(ExpectedEntries)
          /\ Len(tab) = IF ExpectedEntries = <<>> THEN 0 ELSE 1 + Len(ExpectedEntries)
          /\ tab # <<>> => tab[1] = NullOutSym
          /\ \A k \in 1..Len(ExpectedEntries) : StandsFor(tab[k + 1], k, ExpectedEntries[k])
          /\ \A i, j \in 1..Len(obj.symbols) :
                (/\ Reserving(i) /\ Reserving(j)
                 /\ IsLocal(obj.symbols[i]) /\ ~IsLocal(obj.symbols[j]))
                => Unwrap(symbol_map[i]) < Unwrap(symbol_map[j])

\* C25 witness: the symbol table of a named relocatable object with a section
\* was written, its model symbols a global one before a local one, or a
\* Section-kind one.
C25_Witness ==
    /\ HasEmitted("symtab")
    /\ obj.kind = "Relocatable" /\ obj.name # "" /\ Len(obj.sections) >= 1
    /\ Len(obj.symbols) = 2
    /\ ~IsLocal(obj.symbols[1])
    /\ IsLocal(obj.symbols[2])
    /\ obj.symbols[2].kind = "Section"

\* C25 witness, locals moved first: the table of an executable whose second
\* model symbol is local-flagged and whose first is not was written.
C25_WitnessReordered ==
    /\ HasEmitted("symtab")
    /\ Len(obj.symbols) = 2
    /\ ~IsLocal(obj.symbols[1]) /\ IsLocal(obj.symbols[2]) /\ Reserving(2)
    /\ symbol_map[2] # None /\ symbol_map[1] # None
    /\ Unwrap(symbol_map[2]) < Unwrap(symbol_map[1])


\* The metadata record that belongs to the entry standing for `e`
RecordOf(e) ==
    CASE e.of = "file" -> CommentSym(1)
      [] e.of = "section" -> CommentSym(obj.sections[e.index].align)
      [] e.of = "symbol" -> CommentSymFrom(obj.symbols[e.index])

\* C26: with vendor metadata, at every point of the symbol pass there is one
\* record per symbol-table entry reserved so far, the null entry counted, the
\* i-th record belonging to the i-th entry, and the metadata section written
\* holds exactly one record per entry of the symbol table written.
C26_RecordPerEntry ==
    comment_data # None =>
        LET records == Unwrap(comment_data) IN
        /\ Len(records) = 1 + Len(out_symbols)
        /\ records[1] = CommentSym(0)
        /\ \A k \in 1..Len(out_symbols) : records[k + 1] = RecordOf(ExpectedEntries[k])
        /\ (HasEmitted("comment") /\ HasEmitted("symtab")) =>
              Len(Emitted("comment")) = Len(Emitted("symtab"))


\* The header `h` is the one of the reserved entry `e`
HeaderOf(h, e) ==
    CASE e.of = "null" -> h.sh_type = "SHT_NULL" /\ h.name = ""
      [] e.of = "section" ->
            /\ h.name = obj.sections[e.section].name
            /\ h.sh_type \in {"SHT_PROGBITS", "SHT_NOBITS"}
            /\ h.sh_addr = obj.sections[e.section].address
      [] e.of = "rela" ->
            /\ h.sh_type = "SHT_RELA"
            /\ h.name = ".rela" \o obj.sections[e.section].name
            /\ h.sh_info = e.section
      [] e.of = "symtab" -> h.sh_type = "SHT_SYMTAB"
      [] e.of = "strtab" -> h.sh_type = "SHT_STRTAB" /\ h.name = ".strtab"
      [] e.of = "shstrtab" -> h.sh_type = "SHT_STRTAB" /\ h.name = ".shstrtab"
      [] e.of = "comment" -> h.sh_type = "SHT_PROGBITS" /\ h.name = ".comment"

\* C32: the section headers written are, in order, the headers of the section
\* indices in the order reserved (null, the sections, a relocation section
\* per section with relocations, symbol table, string table, section-name
\* table, vendor metadata last), so the k-th header is the one of index
\* k - 1; a relocation section's header links to its section's index, and the
\* index handed out for the metadata section is its header's position.
C32_HeadersInReservedOrder ==
    HasEmitted("section_headers") =>
        LET headers == Emitted("section_headers")
            reserved == ReservedSections(obj)
        IN  /\ Len(headers) = Len(reserved)
            /\ \A k \in 1..Len(reserved) : HeaderOf(headers[k], reserved[k])
            /\ \A k \in 1..Len(reserved) :
                  reserved[k].of = "rela" =>
                      /\ OutSectionIndex(obj, reserved[k].section) = Some(headers[k].sh_info)
                      /\ HeaderOf(headers[headers[k].sh_info + 1],
                                  [of |-> "section", section |-> reserved[k].section])
            /\ obj.mw_comment # None =>
                  /\ reserved[Len(reserved)].of = "comment"
                  /\ CommentSectionIndex(obj) + 1 = Len(headers)

\* C32 witness: the headers of an object with vendor metadata whose first
\* section has relocations and whose second has none were written: null,
\* .text, .bss, .rela.text, the three tables, .comment.
C32_Witness ==
    /\ HasEmitted("section_headers")
    /\ obj.mw_comment # None
    /\ Len(obj.sections) = 2
    /\ HasRelocations(obj.sections[1]) /\ ~HasRelocations(obj.sections[2])
    /\ LET headers == Emitted("section_headers") IN
       /\ Len(headers) = 8
       /\ headers[2].name = ".text" /\ headers[3].name = ".bss"
       /\ headers[4].name = ".rela.text" /\ headers[4].sh_info = 1
       /\ headers[8].name = ".comment"


(***************************************************************************)
(* The split index as a state machine: push and remove.                    *)
(***************************************************************************)
InitSplits == SplitsIdle /\ ScanIdle /\ WriteIdle

\* ObjSplits::push
Push(address, split) ==
    /\ SplitCount(splits) < MaxSplits
    /\ splits' = NestedPush(splits, address, split)
    /\ returned' = [op |-> "push", val |-> None]
    /\ UNCHANGED <<alignment_args, scanVars, writeVars>>

\* ObjSplits::remove
Remove(address) ==
    /\ splits' = MapRemove(splits, address).map
    /\ returned' = [op |-> "remove", val |-> MapRemove(splits, address).removed]
    /\ UNCHANGED <<alignment_args, scanVars, writeVars>>

NextSplits ==
    \/ \E a \in Addrs, s \in SplitInputs : Push(a, s)
    \/ \E a \in Addrs : Remove(a)

SpecSplits == InitSplits /\ [][NextSplits]_vars

(***************************************************************************)
(* Claims about the split index (checked under SpecSplits).                *)
(***************************************************************************)
\* The stored splits as a set of <<start, position in the Vec>> pairs.
StoredAt(m) == {<<k, i>> \in (DOMAIN m) \X (1..MaxSplits) : i <= Len(m[k])}
Qualifies(m, p, a) == p[1] <= a /\ (m[p[1]][p[2]].end = 0 \/ a < m[p[1]][p[2]].end)
Referencing(m, unit) == {p \in StoredAt(m) : m[p[1]][p[2]].unit = unit}

\* C2: for every reachable index and every address a, for_address(a) is Some
\* exactly when some stored split s has s.start <= a and (s.end = 0 or
\* a < s.end), and the split returned is such a split with the greatest start.
C2_ForAddressFindsQualifying ==
    \A a \in Addrs :
        LET r == ForAddress(splits, a)
            Q == {p \in StoredAt(splits) : Qualifies(splits, p, a)}
        IN  /\ IsSome(r) <=> Q # {}
            /\ IsSome(r) =>
                  /\ \E p \in Q : p[1] = Unwrap(r)[1] /\ splits[p[1]][p[2]] = Unwrap(r)[2]
                  /\ \A q \in Q : q[1] <= Unwrap(r)[1]

\* C3: for_unit(name) is Ok(None) when no stored split references name, is
\* Ok(Some(start, split)) of the only such split when exactly one does, and is
\* an error (not Ok(None)) when two or more do, at one start address or at
\* several; it never yields more than one match.
C3_ForUnitThreeOutcomes ==
    \A u \in Units :
        LET R == Referencing(splits, u)
            r == ForUnit(splits, u)
        IN  /\ R = {} => r = Ok(None)
            /\ Cardinality(R) = 1 =>
                  \E p \in R : r = Ok(Some(<<p[1], splits[p[1]][p[2]]>>))
            /\ Cardinality(R) >= 2 => (~r.ok /\ r # Ok(None))
            /\ r.ok => Len(r.val) <= 1

\* C3 witness: two splits of one unit stored at different start addresses make
\* for_unit fail, while the unit without a split is reported as not found.
C3_Witness ==
    /\ \E j, k \in DOMAIN splits :
          j # k /\ splits[j][1].unit = "a.c" /\ splits[k][1].unit = "a.c"
    /\ ~ForUnit(splits, "a.c").ok
    /\ ForUnit(splits, "b.c") = Ok(None)

\* The list stored at a start address, empty when the address has none
ListAt(m, a) == IF a \in DOMAIN m THEN m[a] ELSE <<>>

\* C13: push(a, s) appends s after the splits already stored at start a and
\* leaves every other start address's list unchanged, whatever s is
\* (overlapping ranges, duplicate unit names, repeated start addresses);
\* remove(a) returns exactly the list stored at a (none when there is no such
\* list), removes it, and leaves every other start address's list unchanged.
C13_PushRemoveFrame ==
    [][ /\ returned'.op = "push" =>
              \E a \in Addrs, s \in SplitInputs :
                  /\ DOMAIN splits' = DOMAIN splits \cup {a}
                  /\ splits'[a] = Append(ListAt(splits, a), s)
                  /\ \A k \in DOMAIN splits \ {a} : splits'[k] = splits[k]
        /\ returned'.op = "remove" =>
              \E a \in Addrs :
                  /\ returned'.val =
                        (IF a \in DOMAIN splits THEN Some(splits[a]) ELSE None)
                  /\ DOMAIN splits' = DOMAIN splits \ {a}
                  /\ \A k \in DOMAIN splits \ {a} : splits'[k] = splits[k]
      ]_vars

\* C13 witness: remove has just returned the list of two splits of the same
\* unit that were pushed at one start address.
C13_Witness ==
    /\ returned.op = "remove"
    /\ IsSome(returned.val)
    /\ Len(Unwrap(returned.val)) = 2
    /\ Unwrap(returned.val)[1].unit = Unwrap(returned.val)[2].unit


(***************************************************************************)
(* ObjSplit::alignment.  default_section_align (util/split.rs) and         *)
(* ObjSymbols::for_section_range (obj/symbols.rs) are taken by what they   *)
(* are named for: the alignment recorded for the section, and the symbols  *)
(* of the section whose address lies in the range given.  A Rust range     *)
(* lo..hi with hi <= lo holds no address.                                  *)
(***************************************************************************)
DefaultSectionAlign(section) == section.align

ForSectionRange(o, section_index, lo, hi) ==
    {i \in 1..Len(o.symbols) :
        /\ o.symbols[i].section = Some(section_index)
        /\ lo <= o.symbols[i].address
        /\ o.symbols[i].address < hi}

\* ObjSplit::alignment
Alignment(split, o, section_index, section, split_addr) ==
    IF IsSome(split.align) THEN Unwrap(split.align)
    ELSE LET default_align == DefaultSectionAlign(section)
             aligns == {Unwrap(o.symbols[i].align) :
                          i \in {j \in ForSectionRange(o, section_index, split_addr, split.end) :
                                    /\ o.symbols[j].size_known
                                    /\ o.symbols[j].size > 0
                                    /\ IsSome(o.symbols[j].align)}}
         IN  MaxOf({IF aligns = {} THEN default_align ELSE MaxOf(aligns), default_align})

(***************************************************************************)
(* alignment as a state machine: an object with one Data section of 8      *)
(* bytes, one symbol in it, and one or two splits of the section; each     *)
(* step asks one stored split for its alignment.                           *)
(***************************************************************************)
AlignHints == {None, Some(2), Some(16)}

AlignSymbols ==
    {[ObjSymbol("d", "Object", Some(1), {"Global"}) EXCEPT
          !.address = a, !.size = z, !.size_known = k, !.align = h] :
        a \in {0, 4}, z \in {0, 4}, k \in BOOLEAN, h \in AlignHints}

AlignSplits ==
    {[ObjSplit("a.c", e) EXCEPT !.align = h] : e \in {0, 4, 8}, h \in AlignHints}

AlignSplitMaps ==
    {NestedPush(EmptyMap, 0, s) : s \in AlignSplits}
    \cup {NestedPush(NestedPush(EmptyMap, 0, ObjSplit("a.c", 4)), 4, s) : s \in AlignSplits}

AlignObjs ==
    {[kind |-> "Executable", name |-> "",
      sections |-> <<[WriteSection(".data", "Data", 0, 8, <<0, 0, 0, 0, 0, 0, 0, 0>>, EmptyMap)
                        EXCEPT !.align = 8, !.splits = m]>>,
      symbols |-> <<sym>>, mw_comment |-> None, link_order |-> <<>>] :
        m \in AlignSplitMaps, sym \in AlignSymbols}

InitAlign ==
    /\ obj \in AlignObjs
    /\ write_state = "idle"
    /\ cursor = 0
    /\ out_symbols = <<>>
    /\ symbol_map = <<>>
    /\ num_local = 0
    /\ symtab_num = 0
    /\ section_symbol_offset = 0
    /\ comment_data = None
    /\ out_data = <<>>
    /\ SplitsIdle
    /\ ScanIdle

\* split.alignment(obj, section_index, section, split_addr) for the split
\* stored at position i of start address split_addr
CallAlignment(split_addr, i) ==
    /\ split_addr \in DOMAIN obj.sections[1].splits
    /\ i \in 1..Len(obj.sections[1].splits[split_addr])
    /\ LET split == obj.sections[1].splits[split_addr][i] IN
       /\ alignment_args' = Some([split |-> split, section_index |-> 1,
                                  split_addr |-> split_addr])
       /\ returned' = [op |-> "alignment",
                       val |-> Some(Alignment(split, obj, 1, obj.sections[1], split_addr))]
    /\ UNCHANGED <<splits, scanVars, writeVars>>

NextAlign == \E a \in {0, 4}, i \in 1..MaxSplits : CallAlignment(a, i)

SpecAlign == InitAlign /\ [][NextAlign]_vars

\* Where a split starting at a ends: its end address, or, for an open split
\* (end 0), the next split's start or the end of the section.
SplitEnd(section, split, a) ==
    IF split.end # 0 THEN split.end
    ELSE MinOf({k \in DOMAIN section.splits : k > a}
               \cup {section.address + section.size})

\* The alignment hints of the symbols of section 1 with known, non-zero size
\* whose address lies in [lo, hi)
HintsWithin(o, lo, hi) ==
    {Unwrap(o.symbols[i].align) :
        i \in {j \in 1..Len(o.symbols) :
                  /\ o.symbols[j].section = Some(1)
                  /\ o.symbols[j].size_known /\ o.symbols[j].size > 0
                  /\ IsSome(o.symbols[j].align)
                  /\ lo <= o.symbols[j].address /\ o.symbols[j].address < hi}}

\* C14: alignment returns the explicit override whenever one is set, and
\* otherwise the greater of the section default and the greatest alignment
\* hint over the section's symbols of known, non-zero size that lie in the
\* split, from its start to its end; an open split (end 0) reaches to the next
\* split or the end of the section.
C14_AlignmentOverrideOrMaxHint ==
    (IsSome(alignment_args) /\ returned.op = "alignment") =>
        LET c == Unwrap(alignment_args)
            section == obj.sections[c.section_index]
        IN  Unwrap(returned.val) =
                IF IsSome(c.split.align) THEN Unwrap(c.split.align)
                ELSE MaxOf({DefaultSectionAlign(section)} \cup
                           HintsWithin(obj, c.split_addr,
                                       SplitEnd(section, c.split, c.split_addr)))


(***************************************************************************)
(* process_elf after the symbol loop, on the scanner's state: the scan of  *)
(* SpecScan followed by the step that builds the object (link order,       *)
(* splits, relocations).                                                    *)
(***************************************************************************)
Link ==
    /\ read_state = "scan"
    /\ Len(elf.symbols) >= 1
    /\ LET o == LinkObject(elf, ScanFrame)
           r == ReadAllRelocations(elf, symbol_indexes, o.sections, 1)
       IN  /\ read_state' = IF r.ok THEN "done" ELSE "failed"
           /\ obj' = IF r.ok THEN [o EXCEPT !.sections = r.val] ELSE obj
    /\ UNCHANGED <<elf, boundary_state, section_starts, name_to_index, symbol_indexes,
                   symbols, obj_name, write_state, cursor, out_symbols, symbol_map,
                   num_local, symtab_num, section_symbol_offset, comment_data, out_data,
                   splitVars>>

NextLink == NextScan \/ Link

SpecLink == InitScan /\ [][NextLink]_vars

ExecutableRead == read_state = "done" /\ elf.kind = "Executable"

\* The splits of unit `unit` in a split index, as (start, position) pairs
UnitSplits(m, unit) ==
    {p \in UNION {{<<k, i>> : i \in 1..Len(m[k])} : k \in DOMAIN m} :
        m[p[1]][p[2]].unit = unit}

\* C23: in every object a successful read of an executable returns, no
\* section's split index holds two splits with the same unit name, so
\* for_unit succeeds on every section for every unit of the link order,
\* whatever the order of the FILE, SECTION and ordinary symbols of the input.
C23_OneSplitPerUnitAndSection ==
    ExecutableRead =>
        \A i \in 1..Len(obj.sections) : \A k \in 1..Len(obj.link_order) :
            /\ Cardinality(UnitSplits(obj.sections[i].splits, obj.link_order[k])) <= 1
            /\ ForUnit(obj.sections[i].splits, obj.link_order[k]).ok



\* The FILE symbols of the image that the denylist does not drop, in table order
UnitFiles ==
    SelectSeq(elf.symbols, LAMBDA sym : sym.kind = "File" /\ ~IsPchFileName(sym.name))

\* `unit` is the FILE name itself, or the name with a duplicate's suffix
NamedAfter(unit, file_name, earlier) ==
    \/ unit = file_name /\ file_name \notin earlier
    \/ /\ file_name \in earlier
       /\ \E n \in 1..MaxSyms : unit = file_name \o "_" \o DecStr(n)

\* C29: the link order of an executable read holds one unit per FILE symbol
\* the denylist keeps, in the order of the FILE symbols, a duplicate's renamed
\* unit at the position of its own FILE symbol, and no name twice; FILE
\* symbols after the files ended are units as well.
C29_LinkOrderOnePerFile ==
    ExecutableRead =>
        /\ Len(obj.link_order) = Len(UnitFiles)
        /\ \A k \in 1..Len(obj.link_order) :
              NamedAfter(obj.link_order[k], UnitFiles[k].name,
                         {obj.link_order[j] : j \in 1..(k - 1)})
        /\ \A j, k \in 1..Len(obj.link_order) :
              obj.link_order[j] = obj.link_order[k] => j = k

\* C29 witness: an executable was read whose table holds an absolute symbol
\* and then two FILE symbols of one name; the link order has both units.
C29_Witness ==
    /\ ExecutableRead
    /\ Len(elf.symbols) = 4
    /\ AbsoluteOrdinary(elf.symbols[2])
    /\ elf.symbols[3].kind = "File" /\ elf.symbols[3].name = "a.c"
    /\ elf.symbols[4].kind = "File" /\ elf.symbols[4].name = "a.c"
    /\ obj.link_order = <<"a.c", "a.c_1">>


\* The boundary entries recorded, as <<position of the unit, position in its list>>
BoundaryEntries ==
    UNION {{<<u, e>> : e \in 1..Len(section_starts[u].entries)} :
              u \in 1..Len(section_starts)}

\* The kept sections of `o` that hold `address`
Holding(o, address) ==
    {i \in 1..Len(o.sections) :
        /\ address >= o.sections[i].address
        /\ address < o.sections[i].address + o.sections[i].size}

\* The splits of `o`, as <<section, start, position in the Vec>>
SplitsOf(o) ==
    UNION {UNION {{<<i, a, k>> : k \in 1..Len(o.sections[i].splits[a])} :
                     a \in DOMAIN o.sections[i].splits} :
              i \in 1..Len(o.sections)}

\* In the object `o` read from the executable, every split is a fresh one of
\* its unit at an address its section holds, and for every unit, section and
\* address there are as many splits as boundary entries of that unit at that
\* address held by that section: one split per entry inside a kept section,
\* none for an entry inside no kept section.
OneSplitPerEntry(o) ==
    /\ \A s \in SplitsOf(o) :
          LET split == o.sections[s[1]].splits[s[2]][s[3]] IN
          /\ s[1] \in Holding(o, s[2])
          /\ split = [unit |-> split.unit, end |-> 0, align |-> None, common |-> FALSE,
                      autogenerated |-> FALSE, skip |-> FALSE, rename |-> None]
    /\ \A u \in 1..Len(section_starts), i \in 1..Len(o.sections), a \in 0..16 :
          Cardinality({s \in SplitsOf(o) :
                          /\ s[1] = i /\ s[2] = a
                          /\ o.sections[i].splits[a][s[3]].unit = section_starts[u].name})
          = Cardinality({b \in BoundaryEntries :
                          /\ b[1] = u
                          /\ section_starts[u].entries[b[2]][1] = a
                          /\ i \in Holding(o, a)})
    /\ Cardinality(SplitsOf(o))
       = Cardinality({b \in BoundaryEntries :
                         Holding(o, section_starts[b[1]].entries[b[2]][1]) # {}})

\* C30: the step that ends the read of an executable never fails on a
\* boundary entry, and leaves exactly one split per boundary entry whose
\* address a kept section holds, at start = address in that section, with the
\* unit's name, end 0, no alignment, common, autogenerated and skip false and
\* no rename; an entry whose address no kept section holds leaves none.
C30_SplitPerBoundaryEntry ==
    [][(/\ read_state = "scan" /\ read_state' # "scan"
        /\ elf' = elf /\ elf.kind = "Executable")
       => /\ read_state' = "done"
          /\ OneSplitPerEntry(obj')]_vars

\* C30 witness: an executable was read whose unit a.c has a boundary entry at
\* address 0, inside no kept section, and one at address 4, inside .text; the
\* only split is the one at 4.
C30_Witness ==
    /\ ExecutableRead
    /\ section_starts = <<[name |-> "a.c", entries |-> <<<<0, ".text">>, <<4, ".text">>>>]>>
    /\ DOMAIN obj.sections[1].splits = {4}
    /\ obj.sections[1].splits[4] = <<ObjSplit("a.c", 0)>>
    /\ DOMAIN obj.sections[2].splits = {}

\* The number of kept symbols among the first p input symbols
KeptUpTo(p) == Cardinality({q \in 1..p : ~DroppedSymbol(elf.symbols[q])})

\* C31: while the read has not failed, the symbol index table has one entry
\* per input symbol scanned, in table order; the entry is None exactly for
\* null symbols, FILE symbols (denylisted or not) and symbols of a dropped
\* section; the kept entries count up in table order (from 1 here, from 0 in
\* the code) and each is the position of its symbol in the output list.
C31_SymbolIndexTable ==
    read_state = "scan" =>
        /\ Len(symbol_indexes) = Len(elf.symbols)
        /\ Len(symbols) = KeptUpTo(Len(elf.symbols))
        /\ \A p \in 1..Len(elf.symbols) :
              IF DroppedSymbol(elf.symbols[p])
              THEN symbol_indexes[p] = None
              ELSE /\ symbol_indexes[p] = Some(KeptUpTo(p))
                   /\ symbols[KeptUpTo(p)].address = elf.symbols[p].address
                   /\ symbols[KeptUpTo(p)].name =
                         IF elf.symbols[p].kind = "Section"
                         THEN elf.sections[elf.symbols[p].section.idx].name
                         ELSE elf.symbols[p].name

\* C31 witness: the table holds the null symbol, a denylisted FILE symbol, a
\* SECTION symbol of a dropped section and an ordinary symbol; only the last
\* is kept, as the first output symbol.
C31_Witness ==
    /\ read_state = "scan"
    /\ Len(elf.symbols) = 4
    /\ elf.symbols[2].kind = "File" /\ IsPchFileName(elf.symbols[2].name)
    /\ elf.symbols[3].kind = "Section" /\ elf.symbols[3].section.idx = 3
    /\ elf.symbols[4].name = "g"
    /\ symbol_indexes = <<None, None, None, Some(1)>>
    /\ Len(symbols) = 1 /\ symbols[1].name = "g"


\* Some split with start `address` is among the pairs `pairs`
YieldsAt(pairs, address) == \E i \in 1..Len(pairs) : pairs[i][1] = address

\* C33: after every push and remove no start address holds an empty list:
\* has_split_at(a) is true exactly when iter, and for_range up to a, yield a
\* split with start a; remove(a) leaves has_split_at(a) false, and it stays
\* false until a push(a, _).
C33_NoEmptyList ==
    /\ [](/\ \A k \in DOMAIN splits : splits[k] # <<>>
          /\ LET yielded == SplitsIter(splits) IN
             \A a \in Addrs :
                /\ HasSplitAt(splits, a) <=> YieldsAt(yielded, a)
                /\ HasSplitAt(splits, a) <=> YieldsAt(ForRangeToInclusive(splits, a), a))
    /\ [][\A a \in Addrs :
             /\ (returned'.op = "remove" /\ Remove(a)) => ~HasSplitAt(splits', a)
             /\ (~HasSplitAt(splits, a) /\ HasSplitAt(splits', a)) =>
                   \E s \in SplitInputs : Push(a, s)]_vars

\* C33 witness: remove(0) returned the splits stored at 0 and left the index
\* with the splits at 1 only.
C33_Witness ==
    /\ returned.op = "remove"
    /\ IsSome(returned.val)
    /\ DOMAIN splits = {1}
    /\ ~HasSplitAt(splits, 0)
    /\ YieldsAt(SplitsIter(splits), 1)

=============================================================================
